---- MODULE Spec2Model ----
(***************************************************************************)
(* A model of the event core of JWM (src/src/event.c): the dispatch loop   *)
(* WaitForEvent/ProcessEvent, the typed event handlers, and the parts of   *)
(* the client registry and client state machine the handlers call.         *)
(*                                                                         *)
(* The window manager's mutable state is threaded through the handlers as  *)
(* a record m (the "machine"): m.nodes is the client list, m.calls the     *)
(* trace of the calls the running handler has made so far, and the other   *)
(* fields are the file-scope and function-scope statics of event.c.  A     *)
(* handler is an operator from (m, event) to the machine after it.         *)
(*                                                                         *)
(* X requests a handler issues are buffered in xreq and applied to the     *)
(* server's window table one at a time by ServerStep, so every             *)
(* intermediate server state is a state of the model.                      *)
(***************************************************************************)
EXTENDS Integers, Sequences, FiniteSets, TLC

(* ---------------------------------------------------------------- bounds *)

MaxWindows == 2
MaxSize == 2
MaxQueue == 2
desktopCount == 2
doubleClickSpeed == 1
doubleClickDelta == 1

(* ------------------------------------------------------------- constants *)

rootWindow == 0
None == 0

Windows == 1..MaxWindows
ParentOf(w) == w + MaxWindows
WindowIds == 0..(2 * MaxWindows)

Sizes == 1..MaxSize
Positions == {0, 1}

FocusModels == {"FOCUS_SLOPPY", "FOCUS_CLICK"}
BorderChoices ==
  { {}, {"BORDER_OUTLINE"}, {"BORDER_TITLE"}, {"BORDER_OUTLINE", "BORDER_TITLE"} }

VARIABLES
  nodes,            \* the client list: a sequence of ClientNode records
  hints,            \* per window, the state its properties read back as
  focusModel,       \* FOCUS_SLOPPY or FOCUS_CLICK
  showMenuOnRoot,   \* event.c:26
  lastClickTime,    \* statics of DispatchBorderButtonEvent
  lastX,
  lastY,
  doubleClickActive,
  shouldExit,       \* the shutdown flag
  currentDesktop,   \* the desktop being shown
  calls,            \* calls made by the most recent handler, in order
  last,             \* the event the most recent handler was given
  xreq,             \* X requests issued and not yet applied by the server
  srv,              \* the server's window table
  serverGrabbed,    \* whether the server is grabbed by the window manager
  queue,            \* events on the display connection, oldest first
  handled,          \* WaitForEvent's handled, as its last iteration left it
  pc                \* where the event loop stands

wmVars == <<nodes, hints, focusModel, showMenuOnRoot, lastClickTime, lastX, lastY,
            doubleClickActive, shouldExit, currentDesktop, calls, last>>
srvVars == <<xreq, srv, serverGrabbed>>
loopVars == <<queue, handled, pc>>
vars == <<wmVars, srvVars, loopVars>>

(* ------------------------------------------------------------ the machine *)

Cur ==
  [ nodes |-> nodes, calls |-> <<>>, showMenuOnRoot |-> showMenuOnRoot,
    lastClickTime |-> lastClickTime, lastX |-> lastX, lastY |-> lastY,
    doubleClickActive |-> doubleClickActive, shouldExit |-> shouldExit,
    currentDesktop |-> currentDesktop ]

Call(m, name, win, arg) ==
  [m EXCEPT !.calls = Append(@, <<name, win, arg>>)]

XRequests == { "JXMapWindow", "JXUnmapWindow", "JXConfigureWindow",
               "JXGrabServer", "JXUngrabServer", "JXDestroyWindow",
               "JXCreateWindow", "JXReparentWindow" }
IsXRequest(c) == c[1] \in XRequests

SetStatus(m, np, flag) ==
  [m EXCEPT !.nodes[np].state.status = @ \cup {flag}]
ClearStatus(m, np, flag) ==
  [m EXCEPT !.nodes[np].state.status = @ \ {flag}]
HasStatus(m, np, flag) == flag \in m.nodes[np].state.status
HasBorder(m, np, flag) == flag \in m.nodes[np].state.border

(* ----------------------------------------------------------- the registry *)

RECURSIVE FirstIndex(_, _, _, _)
FirstIndex(list, field, id, i) ==
  IF i > Len(list) THEN None
  ELSE IF list[i][field] = id THEN i
  ELSE FirstIndex(list, field, id, i + 1)

FindClientByParent(m, id) == FirstIndex(m.nodes, "parent", id, 1)

FindClientByWindow(m, id) ==
  LET np == FirstIndex(m.nodes, "window", id, 1)
  IN  IF np # None THEN np ELSE FindClientByParent(m, id)

GetActiveClient(m) ==
  LET act == { i \in 1..Len(m.nodes) : HasStatus(m, i, "STAT_ACTIVE") }
  IN  IF act = {} THEN None ELSE CHOOSE i \in act : \A j \in act : i <= j

(* ------------------------------------------------------ border geometry *)

borderWidth == 1
titleSize == 3

\* Mutant: a title bar is given its room even on a client without outline.
ConfigureInsets_TitleAlone(border) ==
  [ east  |-> IF "BORDER_OUTLINE" \in border THEN borderWidth ELSE 0,
    west  |-> IF "BORDER_OUTLINE" \in border THEN borderWidth ELSE 0,
    south |-> IF "BORDER_OUTLINE" \in border THEN borderWidth ELSE 0,
    north |-> IF "BORDER_TITLE" \in border THEN titleSize
              ELSE IF "BORDER_OUTLINE" \in border THEN borderWidth ELSE 0 ]

\* The insets HandleConfigureRequest derives from the border flags.
ConfigureInsets(border) ==
  IF "BORDER_OUTLINE" \in border
  THEN [ east |-> borderWidth, west |-> borderWidth, south |-> borderWidth,
         north |-> IF "BORDER_TITLE" \in border THEN titleSize ELSE borderWidth ]
  ELSE [ north |-> 0, south |-> 0, east |-> 0, west |-> 0 ]

(* ------------------------------------------- the client state machine *)

LAYER_DESKTOP == 0
LAYER_NORMAL == 2
LAYER_ABOVE == 3

\* The geometry the server reports for a window about to be managed.
WindowGeometry(w) ==
  [x |-> srv[w].x, y |-> srv[w].y, width |-> srv[w].width, height |-> srv[w].height]

\* What the hint layer reads back for a window about to be managed.
ReadWindowState(w) == hints[w]

HintState(b) == [status |-> {}, border |-> b, layer |-> LAYER_NORMAL, desktop |-> 0]

NewClient(w, state, geom) ==
  [ window |-> w, parent |-> ParentOf(w),
    x |-> geom.x, y |-> geom.y, width |-> geom.width, height |-> geom.height,
    state |-> [state EXCEPT !.status = @ \cup {"STAT_MAPPED"}],
    borderAction |-> "BA_NONE", controller |-> FALSE, cmap |-> 0 ]

\* Registers w: creates the frame around it and maps both.  Returns the
\* machine and the new client (None when the window is not manageable).
AddClientWindow(m, w, env) ==
  IF ~env.addOk
  THEN [m |-> Call(m, "AddClientWindow", w, 0), np |-> None]
  ELSE
    LET c  == NewClient(w, ReadWindowState(w), WindowGeometry(w))
        in == ConfigureInsets(c.state.border)
        m1 == Call(m, "AddClientWindow", w, 1)
        m2 == [m1 EXCEPT !.nodes = Append(@, c)]
        m3 == [m2 EXCEPT !.calls = @ \o
                 << <<"JXCreateWindow", c.parent, c.x, c.y,
                      c.width + in.east + in.west, c.height + in.north + in.south>>,
                    <<"JXReparentWindow", c.window, in.west, in.north>>,
                    <<"JXMapWindow", c.window, 0>>,
                    <<"JXMapWindow", c.parent, 0>> >>]
    IN  [m |-> m3, np |-> Len(m3.nodes)]

\* Deregisters both ids of the client and destroys its frame.
RemoveClient(m, np) ==
  LET c  == m.nodes[np]
      m1 == Call(m, "RemoveClient", c.window, 0)
      m2 == [m1 EXCEPT !.calls = @ \o
               << <<"JXReparentWindow", c.window, c.x, c.y>>,
                  <<"JXDestroyWindow", c.parent, 0>> >>]
  IN  [m2 EXCEPT !.nodes = SubSeq(@, 1, np - 1) \o SubSeq(@, np + 1, Len(@))]

FocusClient(m, np) ==
  LET m1 == Call(m, "FocusClient", m.nodes[np].window, 0)
  IN  [m1 EXCEPT !.nodes =
         [i \in 1..Len(@) |->
            IF i = np
            THEN [@[i] EXCEPT !.state.status = @ \cup {"STAT_ACTIVE"}]
            ELSE [@[i] EXCEPT !.state.status = @ \ {"STAT_ACTIVE"}]]]

RaiseClient(m, np) == Call(m, "RaiseClient", m.nodes[np].window, 0)

\* Minimize: unmapped on the server, still registered.
MinimizeClient(m, np) ==
  LET c  == m.nodes[np]
      m1 == Call(m, "MinimizeClient", c.window, 0)
      m2 == ClearStatus(SetStatus(m1, np, "STAT_MINIMIZED"), np, "STAT_MAPPED")
  IN  IF HasStatus(m, np, "STAT_MINIMIZED")
      THEN m1
      ELSE Call(Call(m2, "JXUnmapWindow", c.window, 0), "JXUnmapWindow", c.parent, 0)

\* Restore: clears minimized and withdrawn, remaps both windows, raises.
RestoreClient(m, np) ==
  LET c  == m.nodes[np]
      m1 == Call(m, "RestoreClient", c.window, 0)
      m2 == ClearStatus(ClearStatus(SetStatus(m1, np, "STAT_MAPPED"),
                                    np, "STAT_MINIMIZED"), np, "STAT_WITHDRAWN")
      m3 == Call(Call(m2, "JXMapWindow", c.window, 0), "JXMapWindow", c.parent, 0)
  IN  IF HasStatus(m, np, "STAT_MAPPED") THEN RaiseClient(m1, np) ELSE RaiseClient(m3, np)

\* Withdraw: sets withdrawn and unmaps both windows; the client stays.
SetClientWithdrawn(m, np, isWithdrawn) ==
  LET c  == m.nodes[np]
      m1 == Call(m, "SetClientWithdrawn", c.window, isWithdrawn)
  IN  IF isWithdrawn = 1
      THEN LET m2 == ClearStatus(SetStatus(m1, np, "STAT_WITHDRAWN"), np, "STAT_MAPPED")
           IN  IF HasStatus(m, np, "STAT_MAPPED")
               THEN Call(Call(m2, "JXUnmapWindow", c.window, 0),
                         "JXUnmapWindow", c.parent, 0)
               ELSE m2
      ELSE ClearStatus(m1, np, "STAT_WITHDRAWN")

ShadeClient(m, np) ==
  SetStatus(Call(m, "ShadeClient", m.nodes[np].window, 0), np, "STAT_SHADED")

UnshadeClient(m, np) ==
  ClearStatus(Call(m, "UnshadeClient", m.nodes[np].window, 0), np, "STAT_SHADED")

\* Maximize toggles the maximized state.
MaximizeClient(m, np) ==
  LET m1 == Call(m, "MaximizeClient", m.nodes[np].window, 0)
  IN  IF HasStatus(m, np, "STAT_MAXIMIZED")
      THEN ClearStatus(m1, np, "STAT_MAXIMIZED")
      ELSE SetStatus(m1, np, "STAT_MAXIMIZED")

\* Stick shows the client on all desktops; unstick puts it on the current one.
SetClientSticky(m, np, isSticky) ==
  LET m1 == Call(m, "SetClientSticky", m.nodes[np].window, isSticky)
  IN  IF isSticky = 1
      THEN SetStatus(m1, np, "STAT_STICKY")
      ELSE IF HasStatus(m, np, "STAT_STICKY")
           THEN [ClearStatus(m1, np, "STAT_STICKY") EXCEPT
                   !.nodes[np].state.desktop = m.currentDesktop]
           ELSE m1

SetClientDesktop(m, np, desktop) ==
  LET m1 == Call(m, "SetClientDesktop", m.nodes[np].window, desktop)
  IN  [m1 EXCEPT !.nodes[np].state.desktop = desktop]

SetClientLayer(m, np, layer) ==
  LET m1 == Call(m, "SetClientLayer", m.nodes[np].window, layer)
  IN  IF layer \in LAYER_DESKTOP..LAYER_ABOVE
      THEN [m1 EXCEPT !.nodes[np].state.layer = layer]
      ELSE m1

\* Asks the application to close; the window's destruction arrives later
\* as a DestroyNotify.
DeleteClient(m, np) == Call(m, "DeleteClient", m.nodes[np].window, 0)

\* The interactive operations run their own event loops; what the caller
\* sees is the call and, for MoveClient, whether a move took place.
MoveClient(m, np, doMove) == Call(m, "MoveClient", m.nodes[np].window, doMove)
ResizeClient(m, np) == Call(m, "ResizeClient", m.nodes[np].window, 0)
MoveClientKeyboard(m, np) == Call(m, "MoveClientKeyboard", m.nodes[np].window, 0)
ResizeClientKeyboard(m, np) == Call(m, "ResizeClientKeyboard", m.nodes[np].window, 0)
ShowWindowMenu(m, np, x, y) ==
  [m EXCEPT !.calls = Append(@, <<"ShowWindowMenu", m.nodes[np].window, x, y>>)]
ShowRootMenu(m, x, y) == [m EXCEPT !.calls = Append(@, <<"ShowRootMenu", x, y>>)]

ChangeDesktop(m, desktop) ==
  LET m1 == Call(m, "ChangeDesktop", 0, desktop)
  IN  IF desktop >= desktopCount THEN m1 ELSE [m1 EXCEPT !.currentDesktop = desktop]

NextDesktop(m) ==
  [Call(m, "NextDesktop", 0, 0) EXCEPT !.currentDesktop = (@ + 1) % desktopCount]

\* Focus moves to the client after the active one in the list.
FocusNext(m) ==
  LET m1  == Call(m, "FocusNext", 0, 0)
      act == GetActiveClient(m)
  IN  IF Len(m.nodes) = 0 THEN m1
      ELSE FocusClient(m1, (act % Len(m.nodes)) + 1)

Restart(m) == [Call(m, "Restart", 0, 0) EXCEPT !.shouldExit = 1]
Exit(m) == [Call(m, "Exit", 0, 0) EXCEPT !.shouldExit = 1]

\* What the border resolver can answer for a client: none without an outline.
BorderActions ==
  { "BA_NONE", "BA_RESIZE_N", "BA_RESIZE_SE", "BA_MOVE", "BA_CLOSE",
    "BA_MAXIMIZE", "BA_MINIMIZE" }

GetBorderActionType(m, np, action) ==
  IF HasBorder(m, np, "BORDER_OUTLINE") THEN action ELSE "BA_NONE"

Controller(m, np, ending) ==
  IF m.nodes[np].controller
  THEN Call(m, "controller", m.nodes[np].window, ending)
  ELSE m

(* ------------------------------------------------------- event handlers *)

HandleMapRequestFailAdd(m, event) ==
  Call(m, "JXMapWindow", event.window, 0)

\* Mutant: registers the window without looking it up first.
HandleMapRequest_NoLookup(m, event, env) ==
  LET m1  == Call(Call(m, "JXSync", 0, 0), "JXGrabServer", 0, 0)
      add == AddClientWindow(m1, event.window, env)
      m2  == IF add.np # None THEN add.m ELSE HandleMapRequestFailAdd(add.m, event)
      m3  == Call(Call(m2, "JXUngrabServer", 0, 0), "JXSync", 0, 0)
  IN  Call(m3, "RestackClients", 0, 0)

\* Mutant: returns as soon as registration has failed.
HandleMapRequest_EarlyReturn(m, event, env) ==
  LET np == FindClientByWindow(m, event.window)
  IN  IF np = None
      THEN
        LET m1  == Call(Call(m, "JXSync", 0, 0), "JXGrabServer", 0, 0)
            add == AddClientWindow(m1, event.window, env)
        IN  IF add.np # None
            THEN Call(Call(Call(add.m, "JXUngrabServer", 0, 0), "JXSync", 0, 0),
                      "RestackClients", 0, 0)
            ELSE HandleMapRequestFailAdd(add.m, event)
      ELSE Call(m, "RestackClients", 0, 0)

\* Mutant: sets the mapped flag and leaves the other two as they were.
MarkMapped_Only(m, np) == SetStatus(m, np, "STAT_MAPPED")

\* np->state.status |= STAT_MAPPED; &= ~STAT_MINIMIZED; &= ~STAT_WITHDRAWN
MarkMapped(m, np) ==
  ClearStatus(ClearStatus(SetStatus(m, np, "STAT_MAPPED"), np, "STAT_MINIMIZED"),
              np, "STAT_WITHDRAWN")

\* Mutant: a registered client is restored whether or not it is mapped.
NeedsMapping_Always(m, np) == TRUE

\* if(!(np->state.status & STAT_MAPPED))
NeedsMapping(m, np) == ~HasStatus(m, np, "STAT_MAPPED")

HandleMapRequest(m, event, env) ==
  LET np == FindClientByWindow(m, event.window)
  IN  IF np = None
      THEN
        LET m1  == Call(Call(m, "JXSync", 0, 0), "JXGrabServer", 0, 0)
            add == AddClientWindow(m1, event.window, env)
            m2  == IF add.np # None
                   THEN IF focusModel = "FOCUS_CLICK"
                        THEN FocusClient(add.m, add.np)
                        ELSE add.m
                   ELSE HandleMapRequestFailAdd(add.m, event)
            m3  == Call(Call(m2, "JXUngrabServer", 0, 0), "JXSync", 0, 0)
        IN  Call(m3, "RestackClients", 0, 0)
      ELSE
        LET m2 ==
              IF NeedsMapping(m, np)
              THEN
                LET c == MarkMapped(m, np)
                    d == Call(c, "JXMapWindow", c.nodes[np].window, 0)
                    e == Call(d, "JXMapWindow", d.nodes[np].parent, 0)
                    f == RaiseClient(e, np)
                    g == IF focusModel = "FOCUS_CLICK" THEN FocusClient(f, np) ELSE f
                IN  Call(Call(g, "UpdateTaskBar", 0, 0), "UpdatePager", 0, 0)
              ELSE m
        IN  Call(m2, "RestackClients", 0, 0)

\* Mutant: unmaps the frame and leaves the client flagged as mapped.
HandleUnmapNotify_KeepFlag(m, event) ==
  LET np == FindClientByWindow(m, event.window)
  IN  IF np # None /\ m.nodes[np].window = event.window
      THEN
        LET m1 == Controller(m, np, 1)
        IN  IF HasStatus(m1, np, "STAT_MAPPED")
            THEN Call(m1, "JXUnmapWindow", m1.nodes[np].parent, 0)
            ELSE m1
      ELSE m

HandleUnmapNotify(m, event) ==
  LET np == FindClientByWindow(m, event.window)
  IN  IF np # None /\ m.nodes[np].window = event.window
      THEN
        LET m1 == Controller(m, np, 1)
        IN  IF HasStatus(m1, np, "STAT_MAPPED")
            THEN Call(ClearStatus(m1, np, "STAT_MAPPED"),
                      "JXUnmapWindow", m1.nodes[np].parent, 0)
            ELSE m1
      ELSE m

(* Keys.  A KeyType holds the command in its low 8 bits and the command's
   argument above them. *)
KEY_NONE == 0
KEY_EXEC == 1
KEY_DESKTOP == 2
KEY_NEXT == 3
KEY_CLOSE == 4
KEY_SHADE == 5
KEY_MOVE == 6
KEY_RESIZE == 7
KEY_MIN == 8
KEY_MAX == 9
KEY_ROOT == 10
KEY_WIN == 11
KEY_RESTART == 12
KEY_EXIT == 13

KeyCommand(key) == key % 256
KeyArgument(key) == key \div 256

\* Mutant: the active client is the target under either focus model.
KeyTarget_AlwaysActive(m, event) == GetActiveClient(m)

KeyTarget(m, event) ==
  IF focusModel = "FOCUS_CLICK"
  THEN FindClientByWindow(m, event.subwindow)
  ELSE GetActiveClient(m)

\* The binding table: here key code k is bound to the KeyType k.
GetKey(event) == event.keycode

HandleKeyPress(m, event) ==
  LET key == GetKey(event)
      np  == KeyTarget(m, event)
      cmd == KeyCommand(key)
      m0  == Call(m, "GetKey", 0, key)
  IN  CASE cmd = KEY_EXEC    -> Call(m0, "RunKeyCommand", 0, 0)
        [] cmd = KEY_DESKTOP ->
             IF KeyArgument(key) # 0
             THEN ChangeDesktop(m0, KeyArgument(key) - 1)
             ELSE NextDesktop(m0)
        [] cmd = KEY_NEXT    -> FocusNext(m0)
        [] cmd = KEY_CLOSE   -> IF np # None THEN DeleteClient(m0, np) ELSE m0
        [] cmd = KEY_SHADE   ->
             IF np # None
             THEN IF HasStatus(m0, np, "STAT_SHADED")
                  THEN UnshadeClient(m0, np)
                  ELSE ShadeClient(m0, np)
             ELSE m0
        [] cmd = KEY_MOVE    -> IF np # None THEN MoveClientKeyboard(m0, np) ELSE m0
        [] cmd = KEY_RESIZE  -> IF np # None THEN ResizeClientKeyboard(m0, np) ELSE m0
        [] cmd = KEY_MIN     -> IF np # None THEN MinimizeClient(m0, np) ELSE m0
        [] cmd = KEY_MAX     -> IF np # None THEN MaximizeClient(m0, np) ELSE m0
        [] cmd = KEY_ROOT    -> ShowRootMenu(m0, 0, 0)
        [] cmd = KEY_WIN     ->
             IF np # None
             THEN ShowWindowMenu(m0, np, m0.nodes[np].x, m0.nodes[np].y)
             ELSE m0
        [] cmd = KEY_RESTART -> Restart(m0)
        [] cmd = KEY_EXIT    -> Exit(m0)
        [] OTHER             -> m0

(* Buttons. *)

\* abs(a - b) as the code computes it.  For event times the difference is
\* taken in unsigned long and converted to int; for every pair less than
\* 2^31 apart the result is the distance between the two.
AbsDiff(a, b) == IF a >= b THEN a - b ELSE b - a

\* action & 0x0F: the resize actions carry their direction above the type.
BaseAction(action) ==
  IF action \in {"BA_RESIZE_N", "BA_RESIZE_SE"} THEN "BA_RESIZE" ELSE action

\* Mutant: the detector need not be armed.
IsDoubleClick_IgnoreArmed(m, event) ==
  /\ AbsDiff(event.time, m.lastClickTime) <= doubleClickSpeed
  /\ AbsDiff(event.x, m.lastX) <= doubleClickDelta
  /\ AbsDiff(event.y, m.lastY) <= doubleClickDelta

\* Mutant: the time limit is not checked.
IsDoubleClick_NoTime(m, event) ==
  /\ m.doubleClickActive # 0
  /\ AbsDiff(event.x, m.lastX) <= doubleClickDelta
  /\ AbsDiff(event.y, m.lastY) <= doubleClickDelta

IsDoubleClick(m, event) ==
  /\ m.doubleClickActive # 0
  /\ AbsDiff(event.time, m.lastClickTime) <= doubleClickSpeed
  /\ AbsDiff(event.x, m.lastX) <= doubleClickDelta
  /\ AbsDiff(event.y, m.lastY) <= doubleClickDelta

\* Mutant: the release test passes for a press as well.
IsRelease_AnyType(event) == TRUE

\* event->type == ButtonRelease
IsRelease(event) == event.type = "ButtonRelease"

\* event->type == ButtonPress
IsPress(event) == event.type = "ButtonPress"

\* Mutant: every client is taken to have an outline.
HasOutline_Always(m, np) == TRUE

\* np->state.border & BORDER_OUTLINE
HasOutline(m, np) == HasBorder(m, np, "BORDER_OUTLINE")

DispatchBorderButtonEvent(m, event, np, env) ==
  IF ~HasOutline(m, np) THEN m
  ELSE
    LET action == GetBorderActionType(m, np, env.action)
        base   == BaseAction(action)
        m0     == Call(m, "GetBorderActionType", m.nodes[np].window, action)
        press  == IsPress(event)
        release == IsRelease(event)
    IN  CASE base = "BA_RESIZE" -> IF press THEN ResizeClient(m0, np) ELSE m0
          [] base = "BA_MOVE" ->
               IF ~press THEN m0
               ELSE IF IsDoubleClick(m0, event)
               THEN [ (IF HasStatus(m0, np, "STAT_SHADED")
                       THEN UnshadeClient(m0, np)
                       ELSE ShadeClient(m0, np))
                      EXCEPT !.doubleClickActive = 0 ]
               ELSE IF env.moved # 0
               THEN [MoveClient(m0, np, env.moved) EXCEPT !.doubleClickActive = 0]
               ELSE [MoveClient(m0, np, env.moved) EXCEPT
                       !.doubleClickActive = 1,
                       !.lastClickTime = event.time,
                       !.lastX = event.x,
                       !.lastY = event.y]
          [] base = "BA_CLOSE"    -> IF release THEN DeleteClient(m0, np) ELSE m0
          [] base = "BA_MAXIMIZE" -> IF release THEN MaximizeClient(m0, np) ELSE m0
          [] base = "BA_MINIMIZE" -> IF release THEN MinimizeClient(m0, np) ELSE m0
          [] OTHER -> m0

\* Where HandleButtonEvent anchors the window menu for Button3.
MenuAnchor(c, event) ==
  LET border == c.state.border
      x == event.x + c.x
      y == event.y + c.y
  IN  IF "BORDER_OUTLINE" \in border
      THEN [ x |-> x - borderWidth,
             y |-> IF "BORDER_TITLE" \in border THEN y - titleSize ELSE y - borderWidth ]
      ELSE [ x |-> x,
             y |-> IF "BORDER_TITLE" \in border THEN y - titleSize ELSE y ]

\* Mutant: a root click opens the menu whatever the flag says.
RootMenuEligible_Always(m) == TRUE

\* if(showMenuOnRoot)
RootMenuEligible(m) == m.showMenuOnRoot # 0

HandleButtonEvent(m, event, env) ==
  LET np == FindClientByParent(m, event.window)
      m9 ==
        IF np # None
        THEN
          LET m1 == RaiseClient(m, np)
              m2 == IF focusModel = "FOCUS_CLICK" THEN FocusClient(m1, np) ELSE m1
          IN  CASE event.button = 1 -> DispatchBorderButtonEvent(m2, event, np, env)
                [] event.button = 2 -> MoveClient(m2, np, env.moved)
                [] event.button = 3 ->
                     LET a == MenuAnchor(m2.nodes[np], event)
                     IN  ShowWindowMenu(m2, np, a.x, a.y)
                [] OTHER -> m2
        ELSE IF event.window = rootWindow
        THEN IF RootMenuEligible(m) THEN ShowRootMenu(m, event.x, event.y) ELSE m
        ELSE
          LET wp == FindClientByWindow(m, event.window)
          IN  IF wp # None
              THEN
                LET m1 == IF event.button \in 1..3
                          THEN LET r == RaiseClient(m, wp)
                               IN  IF focusModel = "FOCUS_CLICK"
                                   THEN FocusClient(r, wp) ELSE r
                          ELSE m
                IN  Call(m1, "JXAllowEvents", 0, 0)
              ELSE m
  IN  Call(m9, "UpdatePager", 0, 0)

ConfigureCall(win, mask, x, y, width, height) ==
  <<"JXConfigureWindow", win, mask, x, y, width, height>>

\* Mutant: a selected field counts as changed whatever its value.
FieldChanged_MaskOnly(event, flag, requested, stored) == flag \in event.value_mask

\* (event->value_mask & CWWidth) && (event->width != np->width), and so on
\* for each of the four fields.
FieldChanged(event, flag, requested, stored) ==
  flag \in event.value_mask /\ requested # stored

HandleConfigureRequest(m, event) ==
  LET np == FindClientByWindow(m, event.window)
  IN  IF np # None /\ m.nodes[np].window = event.window
      THEN
        LET m1  == Controller(m, np, 0)
            c   == m1.nodes[np]
            chW == FieldChanged(event, "CWWidth", event.width, c.width)
            chH == FieldChanged(event, "CWHeight", event.height, c.height)
            chX == FieldChanged(event, "CWX", event.x, c.x)
            chY == FieldChanged(event, "CWY", event.y, c.y)
            n   == [c EXCEPT !.width = IF chW THEN event.width ELSE @,
                             !.height = IF chH THEN event.height ELSE @,
                             !.x = IF chX THEN event.x ELSE @,
                             !.y = IF chY THEN event.y ELSE @]
            in  == ConfigureInsets(n.state.border)
        IN  IF ~(chW \/ chH \/ chX \/ chY)
            THEN m1
            ELSE [m1 EXCEPT
                    !.nodes[np] = n,
                    !.calls = @ \o
                      << ConfigureCall(n.parent, event.value_mask, n.x, n.y,
                                       n.width + in.east + in.west,
                                       n.height + in.north + in.south),
                         ConfigureCall(n.window, event.value_mask, in.west, in.north,
                                       n.width, n.height) >>]
      ELSE
        [m EXCEPT !.calls = Append(@,
           ConfigureCall(event.window, event.value_mask, event.x, event.y,
                         event.width, event.height))]

WithdrawnState == 0
NormalState == 1
IconicState == 3

\* data.l[0] of a _NET_WM_DESKTOP message that compares equal to ~0UL.
AllDesktops == -1

\* Mutant: accepts the index one past the last desktop.
DesktopInRange_OffByOne(d) == d >= 0 /\ d <= desktopCount

DesktopInRange(d) == d >= 0 /\ d < desktopCount

\* The values of the atoms a message's data can name: their AtomType index.
ATOM_NET_WM_STATE_STICKY == 23
ATOM_NET_WM_STATE_MAXIMIZED_VERT == 24
ATOM_NET_WM_STATE_MAXIMIZED_HORZ == 25
ATOM_NET_WM_STATE_SHADED == 26
ATOM_NET_WM_STATE_FULLSCREEN == 27

WIN_STATE_STICKY == 1
WIN_STATE_HIDDEN == 16

\* value & bit, for a bit that is a power of two.
BitSet(value, bit) == (value \div bit) % 2 = 1

NetWmStateActions(event) ==
  LET named(a) == \E x \in 2..3 : event.data[x] = a
  IN  [ actionStick |-> named(ATOM_NET_WM_STATE_STICKY),
        actionMaximize |-> named(ATOM_NET_WM_STATE_MAXIMIZED_VERT)
                             \/ named(ATOM_NET_WM_STATE_MAXIMIZED_HORZ),
        actionShade |-> named(ATOM_NET_WM_STATE_SHADED) ]

\* Mutant: add and remove call MaximizeClient without looking at the flag.
HandleNetWmState_Unguarded(m, np, event) ==
  LET a == NetWmStateActions(event)
  IN  CASE event.data[1] = 0 ->
             LET m1 == IF a.actionStick THEN SetClientSticky(m, np, 0) ELSE m
                 m2 == IF a.actionMaximize THEN MaximizeClient(m1, np) ELSE m1
             IN  IF a.actionShade THEN UnshadeClient(m2, np) ELSE m2
        [] event.data[1] = 1 ->
             LET m1 == IF a.actionStick THEN SetClientSticky(m, np, 1) ELSE m
                 m2 == IF a.actionMaximize THEN MaximizeClient(m1, np) ELSE m1
             IN  IF a.actionShade THEN ShadeClient(m2, np) ELSE m2
        [] event.data[1] = 2 ->
             LET m1 == IF a.actionStick
                       THEN IF HasStatus(m, np, "STAT_STICKY")
                            THEN SetClientSticky(m, np, 0)
                            ELSE SetClientSticky(m, np, 1)
                       ELSE m
                 m2 == IF a.actionMaximize THEN MaximizeClient(m1, np) ELSE m1
             IN  IF a.actionShade
                 THEN IF HasStatus(m2, np, "STAT_SHADED")
                      THEN UnshadeClient(m2, np)
                      ELSE ShadeClient(m2, np)
                 ELSE m2
        [] OTHER -> Call(m, "Debug", 0, 0)

HandleNetWmState(m, np, event) ==
  LET a == NetWmStateActions(event)
  IN  CASE event.data[1] = 0 ->
             LET m1 == IF a.actionStick THEN SetClientSticky(m, np, 0) ELSE m
                 m2 == IF a.actionMaximize /\ HasStatus(m1, np, "STAT_MAXIMIZED")
                       THEN MaximizeClient(m1, np) ELSE m1
             IN  IF a.actionShade THEN UnshadeClient(m2, np) ELSE m2
        [] event.data[1] = 1 ->
             LET m1 == IF a.actionStick THEN SetClientSticky(m, np, 1) ELSE m
                 m2 == IF a.actionMaximize /\ ~HasStatus(m1, np, "STAT_MAXIMIZED")
                       THEN MaximizeClient(m1, np) ELSE m1
             IN  IF a.actionShade THEN ShadeClient(m2, np) ELSE m2
        [] event.data[1] = 2 ->
             LET m1 == IF a.actionStick
                       THEN IF HasStatus(m, np, "STAT_STICKY")
                            THEN SetClientSticky(m, np, 0)
                            ELSE SetClientSticky(m, np, 1)
                       ELSE m
                 m2 == IF a.actionMaximize THEN MaximizeClient(m1, np) ELSE m1
             IN  IF a.actionShade
                 THEN IF HasStatus(m2, np, "STAT_SHADED")
                      THEN UnshadeClient(m2, np)
                      ELSE ShadeClient(m2, np)
                 ELSE m2
        [] OTHER -> Call(m, "Debug", 0, 0)

HandleWinState(m, np, event) ==
  LET mask  == event.data[1]
      flags == event.data[2]
      m1 == IF BitSet(mask, WIN_STATE_STICKY)
            THEN IF BitSet(flags, WIN_STATE_STICKY)
                 THEN SetClientSticky(m, np, 1)
                 ELSE SetClientSticky(m, np, 0)
            ELSE m
  IN  IF BitSet(mask, WIN_STATE_HIDDEN)
      THEN LET m2 == IF BitSet(flags, WIN_STATE_HIDDEN)
                     THEN SetStatus(m1, np, "STAT_NOLIST")
                     ELSE ClearStatus(m1, np, "STAT_NOLIST")
           IN  Call(Call(m2, "UpdateTaskBar", 0, 0), "UpdatePager", 0, 0)
      ELSE m1

\* Mutant: a value that names no state falls into the iconic case.
HandleChangeState_DefaultIconic(m, np, event) ==
  LET m1 == Controller(m, np, 0)
  IN  CASE event.data[1] = WithdrawnState -> SetClientWithdrawn(m1, np, 1)
        [] event.data[1] = NormalState    -> RestoreClient(m1, np)
        [] OTHER                          -> MinimizeClient(m1, np)

HandleChangeState(m, np, event) ==
  LET m1 == Controller(m, np, 0)
  IN  CASE event.data[1] = WithdrawnState -> SetClientWithdrawn(m1, np, 1)
        [] event.data[1] = IconicState    -> MinimizeClient(m1, np)
        [] event.data[1] = NormalState    -> RestoreClient(m1, np)
        [] OTHER                          -> m1

\* Mutant: assigns the desktop and leaves the sticky flag as it was.
HandleNetWmDesktop_KeepSticky(m, np, event) ==
  IF event.data[1] = AllDesktops
  THEN SetClientSticky(m, np, 1)
  ELSE LET m1 == Controller(m, np, 0)
       IN  IF DesktopInRange(event.data[1])
           THEN SetClientDesktop(m1, np, event.data[1])
           ELSE m1

HandleNetWmDesktop(m, np, event) ==
  IF event.data[1] = AllDesktops
  THEN SetClientSticky(m, np, 1)
  ELSE LET m1 == Controller(m, np, 0)
       IN  IF DesktopInRange(event.data[1])
           THEN SetClientDesktop(ClearStatus(m1, np, "STAT_STICKY"), np, event.data[1])
           ELSE m1

HandleClientMessage(m, event) ==
  LET np == FindClientByWindow(m, event.window)
      t  == event.message_type
  IN  IF np = None THEN m
      ELSE CASE t = "ATOM_WIN_STATE"         -> HandleWinState(m, np, event)
             [] t = "ATOM_WIN_LAYER"         -> SetClientLayer(m, np, event.data[1])
             [] t = "ATOM_WM_CHANGE_STATE"   -> HandleChangeState(m, np, event)
             [] t = "ATOM_NET_ACTIVE_WINDOW" -> FocusClient(RestoreClient(m, np), np)
             [] t = "ATOM_NET_WM_DESKTOP"    -> HandleNetWmDesktop(m, np, event)
             [] t = "ATOM_NET_CLOSE_WINDOW"  -> DeleteClient(m, np)
             [] t = "ATOM_NET_WM_STATE"      -> HandleNetWmState(m, np, event)
             [] OTHER -> Call(Call(m, "JXGetAtomName", 0, 0), "Debug", 0, 0)

\* Mutant: forgets the client before telling its controller.
HandleDestroyNotify_RemoveFirst(m, event) ==
  LET np == FindClientByWindow(m, event.window)
  IN  IF np # None /\ m.nodes[np].window = event.window
      THEN LET c  == m.nodes[np]
               m1 == RemoveClient(m, np)
           IN  [m |-> IF c.controller THEN Call(m1, "controller", c.window, 1) ELSE m1,
                ret |-> 1]
      ELSE [m |-> m, ret |-> 0]

\* The machine after the handler, and the handled value it returns.
HandleDestroyNotify(m, event) ==
  LET np == FindClientByWindow(m, event.window)
  IN  IF np # None /\ m.nodes[np].window = event.window
      THEN [m |-> RemoveClient(Controller(m, np, 1), np), ret |-> 1]
      ELSE [m |-> m, ret |-> 0]

HandleEnterNotify(m, event, env) ==
  LET np == FindClientByWindow(m, event.window)
  IN  IF np = None THEN m
      ELSE
        LET m1 == IF ~HasStatus(m, np, "STAT_ACTIVE") /\ focusModel = "FOCUS_SLOPPY"
                  THEN FocusClient(m, np) ELSE m
            c  == m1.nodes[np]
        IN  IF c.parent = event.window
            THEN LET action == GetBorderActionType(m1, np, env.action)
                     m2 == Call(m1, "GetBorderActionType", c.window, action)
                     m3 == [m2 EXCEPT !.nodes[np].borderAction = action]
                 IN  Call(Call(m3, "GetFrameCursor", c.window, action),
                          "JXDefineCursor", c.parent, action)
            ELSE IF c.borderAction # "BA_NONE"
            THEN [Call(m1, "SetDefaultCursor", c.parent, 0)
                    EXCEPT !.nodes[np].borderAction = "BA_NONE"]
            ELSE m1

HandleLeaveNotify(m, event) ==
  LET np == FindClientByParent(m, event.window)
  IN  IF np # None THEN Call(m, "SetDefaultCursor", m.nodes[np].parent, 0) ELSE m

\* The machine after the handler, and the handled value it returns.
HandleExpose(m, event) ==
  IF event.count # 0 THEN [m |-> m, ret |-> 1]
  ELSE
    LET np == FindClientByWindow(m, event.window)
    IN  IF np = None THEN [m |-> m, ret |-> 0]
        ELSE IF event.window = m.nodes[np].parent
        THEN [m |-> Call(m, "DrawBorder", m.nodes[np].window, 0), ret |-> 1]
        ELSE IF event.window = m.nodes[np].window /\ HasStatus(m, np, "STAT_WMDIALOG")
        THEN [m |-> m, ret |-> 0]
        ELSE [m |-> m, ret |-> 1]

PropertyAtoms ==
  { "XA_WM_NAME", "XA_WM_NORMAL_HINTS", "XA_WM_HINTS", "XA_WM_ICON_NAME",
    "XA_WM_CLIENT_MACHINE", "ATOM_WM_COLORMAP_WINDOWS", "ATOM_NET_WM_ICON",
    "ATOM_NET_WM_NAME", "ATOM_JWM_RESTART", "ATOM_JWM_EXIT" }

\* Mutant: takes any window that is not a client's for the root window.
OnRootWindow_Any(event) == TRUE

\* else if(event->window == rootWindow)
OnRootWindow(event) == event.window = rootWindow

\* The machine after the handler, and the handled value it returns.
HandlePropertyNotify(m, event) ==
  LET np == FindClientByWindow(m, event.window)
  IN  IF np # None
      THEN
        LET w  == m.nodes[np].window
            a  == event.atom
            m1 == CASE a = "XA_WM_NAME"         -> Call(m, "ReadWMName", w, 0)
                    [] a = "XA_WM_NORMAL_HINTS" -> Call(m, "ReadWMNormalHints", w, 0)
                    [] a = "ATOM_WM_COLORMAP_WINDOWS" ->
                         Call(Call(m, "ReadWMColormaps", w, 0), "UpdateClientColormap", w, 0)
                    [] a = "ATOM_NET_WM_ICON"   -> Call(m, "LoadIcon", w, 0)
                    [] a = "ATOM_NET_WM_NAME"   -> Call(m, "ReadWMName", w, 0)
                    [] OTHER                    -> m
            changed == a \in { "XA_WM_NAME", "XA_WM_NORMAL_HINTS", "ATOM_NET_WM_ICON",
                               "ATOM_NET_WM_NAME" }
            m2 == IF changed
                  THEN Call(Call(Call(m1, "DrawBorder", w, 0), "UpdateTaskBar", 0, 0),
                            "UpdatePager", 0, 0)
                  ELSE m1
        IN  [m |-> m2, ret |-> IF HasStatus(m, np, "STAT_WMDIALOG") THEN 0 ELSE 1]
      ELSE IF OnRootWindow(event)
      THEN [m |-> CASE event.atom = "ATOM_JWM_RESTART" -> Restart(m)
                    [] event.atom = "ATOM_JWM_EXIT"    -> Exit(m)
                    [] OTHER                           -> m,
            ret |-> 1]
      ELSE [m |-> m, ret |-> 1]

\* With the shape extension compiled in; without it the handler is empty.
HandleConfigureNotify(m, event) ==
  LET np == FindClientByWindow(m, event.window)
  IN  IF np # None /\ HasStatus(m, np, "STAT_USESHAPE")
      THEN Call(m, "SetShape", m.nodes[np].window, 0)
      ELSE m

HandleMotionNotify(m, event, env) ==
  IF event.is_hint # 0 THEN m
  ELSE
    LET np == FindClientByParent(m, event.window)
    IN  IF np # None /\ HasBorder(m, np, "BORDER_OUTLINE")
        THEN
          LET c      == m.nodes[np]
              action == GetBorderActionType(m, np, env.action)
              m1     == Call(m, "GetBorderActionType", c.window, action)
          IN  IF c.borderAction # action
              THEN Call(Call([m1 EXCEPT !.nodes[np].borderAction = action],
                             "GetFrameCursor", c.window, action),
                        "JXDefineCursor", c.parent, action)
              ELSE m1
        ELSE m

\* Mutant: a window that is no client's is taken for the first client's.
HandleColormapChange_FirstClient(m, event) ==
  IF event.new
  THEN LET f  == FindClientByWindow(m, event.window)
           np == IF f = None /\ m.nodes # <<>> THEN 1 ELSE f
       IN  IF np # None
           THEN Call([m EXCEPT !.nodes[np].cmap = event.colormap],
                     "UpdateClientColormap", m.nodes[np].window, 0)
           ELSE m
  ELSE m

HandleColormapChange(m, event) ==
  IF event.new
  THEN LET np == FindClientByWindow(m, event.window)
       IN  IF np # None
           THEN Call([m EXCEPT !.nodes[np].cmap = event.colormap],
                     "UpdateClientColormap", m.nodes[np].window, 0)
           ELSE m
  ELSE m

SetShowMenuOnRoot(m, v) == [m EXCEPT !.showMenuOnRoot = v]

(* ------------------------------------------------------- the event loop *)

\* Event types WaitForEvent marks handled without calling a handler.
IgnoredTypes ==
  { "CreateNotify", "MapNotify", "NoExpose", "ReparentNotify", "GraphicsExpose" }

\* The switch of WaitForEvent: the machine after the typed handler, and
\* handled.  Without the shape extension every other type is unhandled.
WaitForEventSwitch(m, event, env) ==
  LET t == event.type
  IN  CASE t = "ConfigureRequest" -> [m |-> HandleConfigureRequest(m, event), ret |-> 1]
        [] t = "MapRequest"       -> [m |-> HandleMapRequest(m, event, env), ret |-> 1]
        [] t = "PropertyNotify"   -> HandlePropertyNotify(m, event)
        [] t = "ClientMessage"    -> [m |-> HandleClientMessage(m, event), ret |-> 1]
        [] t = "UnmapNotify"      -> [m |-> HandleUnmapNotify(m, event), ret |-> 1]
        [] t = "Expose"           -> HandleExpose(m, event)
        [] t = "ColormapNotify"   -> [m |-> HandleColormapChange(m, event), ret |-> 1]
        [] t = "DestroyNotify"    -> HandleDestroyNotify(m, event)
        [] t = "ConfigureNotify"  -> [m |-> HandleConfigureNotify(m, event), ret |-> 1]
        [] t \in IgnoredTypes     -> [m |-> m, ret |-> 1]
        [] OTHER                  -> [m |-> m, ret |-> 0]

\* if(!handled) handled = Process...Event(event);
OfferIfUnhandled(r, name, answer) ==
  IF r.ret = 0
  THEN [m |-> Call(r.m, name, 0, answer), ret |-> answer]
  ELSE r

\* handled |= ProcessPopupEvent(event);
OfferPopup(r, answer) ==
  [m |-> Call(r.m, "ProcessPopupEvent", 0, answer),
   ret |-> IF r.ret # 0 \/ answer # 0 THEN 1 ELSE 0]

\* One iteration of WaitForEvent's loop on the event JXNextEvent returned.
WaitForEventIteration(m, event, env) ==
  LET r0 == WaitForEventSwitch(Call(m, "SignalTaskbar", 0, 0), event, env)
      r1 == OfferIfUnhandled(r0, "ProcessTrayEvent", env.tray)
      r2 == OfferIfUnhandled(r1, "ProcessDialogEvent", env.dialog)
      r3 == OfferIfUnhandled(r2, "ProcessSwallowEvent", env.swallow)
  IN  OfferPopup(r3, env.popup)

\* Mutant: the loop stops only on an unhandled event.
LoopContinues_IgnoreExit(h, exit) == h # 0

\* while(handled && !shouldExit)
LoopContinues(h, exit) == h # 0 /\ exit = 0

RemoveAt(q, i) == SubSeq(q, 1, i - 1) \o SubSeq(q, i + 1, Len(q))

\* Mutant: keeps the newest motion sample and discards the rest of the queue.
CoalesceMotion_Discard(q, event) ==
  LET idx == { i \in DOMAIN q : q[i].type = "MotionNotify" }
  IN  [event |-> IF idx = {} THEN event
                 ELSE q[CHOOSE i \in idx : \A j \in idx : j <= i],
       queue |-> <<>>]

\* while(JXCheckTypedEvent(display, MotionNotify, event));
\* each successful check removes the oldest queued MotionNotify into event.
RECURSIVE CoalesceMotion(_, _)
CoalesceMotion(q, event) ==
  LET i == FirstIndex(q, "type", "MotionNotify", 1)
  IN  IF i = None
      THEN [event |-> event, queue |-> q]
      ELSE CoalesceMotion(RemoveAt(q, i), q[i])

\* The machine, the event buffer and the queue after ProcessEvent.
ProcessEvent(m, event, q, env) ==
  LET t == event.type
      same(m1) == [m |-> m1, event |-> event, queue |-> q]
  IN  CASE t \in {"ButtonPress", "ButtonRelease"} -> same(HandleButtonEvent(m, event, env))
        [] t = "KeyPress"     -> same(HandleKeyPress(m, event))
        [] t = "EnterNotify"  -> same(HandleEnterNotify(m, event, env))
        [] t = "LeaveNotify"  -> same(HandleLeaveNotify(m, event))
        [] t = "MotionNotify" ->
             LET c  == CoalesceMotion(q, event)
                 n  == Len(q) - Len(c.queue)
                 m1 == [m EXCEPT !.calls =
                          @ \o [i \in 1..(n + 1) |->
                                  <<"JXCheckTypedEvent", 0, IF i <= n THEN 1 ELSE 0>>]]
             IN  [m |-> HandleMotionNotify(m1, c.event, env),
                  event |-> c.event, queue |-> c.queue]
        [] t \in {"DestroyNotify", "Expose", "KeyRelease"} -> same(m)
        [] OTHER -> same(Call(m, "Debug", 0, 0))

(* ------------------------------------------------------------ the server *)

InitWindow == [mapped |-> FALSE, x |-> 0, y |-> 0, width |-> 1, height |-> 1]

ApplyRequest(table, r) ==
  CASE r[1] = "JXMapWindow"      -> [table EXCEPT ![r[2]].mapped = TRUE]
    [] r[1] = "JXUnmapWindow"    -> [table EXCEPT ![r[2]].mapped = FALSE]
    [] r[1] = "JXDestroyWindow"  -> [table EXCEPT ![r[2]] = InitWindow]
    [] r[1] = "JXCreateWindow"   ->
         [table EXCEPT ![r[2]] = [mapped |-> FALSE, x |-> r[3], y |-> r[4],
                                  width |-> r[5], height |-> r[6]]]
    [] r[1] = "JXConfigureWindow" ->
         [table EXCEPT
            ![r[2]].x = IF "CWX" \in r[3] THEN r[4] ELSE @,
            ![r[2]].y = IF "CWY" \in r[3] THEN r[5] ELSE @,
            ![r[2]].width = IF "CWWidth" \in r[3] THEN r[6] ELSE @,
            ![r[2]].height = IF "CWHeight" \in r[3] THEN r[7] ELSE @]
    [] r[1] = "JXReparentWindow" ->
         [table EXCEPT ![r[2]].x = r[3], ![r[2]].y = r[4]]
    [] OTHER                     -> table

ApplyGrab(grabbed, r) ==
  CASE r[1] = "JXGrabServer"   -> TRUE
    [] r[1] = "JXUngrabServer" -> FALSE
    [] OTHER                   -> grabbed

\* The server applies the oldest buffered request.
ServerStep ==
  /\ xreq # <<>>
  /\ srv' = ApplyRequest(srv, Head(xreq))
  /\ serverGrabbed' = ApplyGrab(serverGrabbed, Head(xreq))
  /\ xreq' = Tail(xreq)
  /\ UNCHANGED <<wmVars, loopVars>>

(* ------------------------------------------------------------- actions *)

\* A handler ran to completion on event and left machine m.
Settle(m, event) ==
  \E r \in {m} :
    /\ nodes' = r.nodes
    /\ calls' = r.calls
    /\ showMenuOnRoot' = r.showMenuOnRoot
    /\ lastClickTime' = r.lastClickTime
    /\ lastX' = r.lastX
    /\ lastY' = r.lastY
    /\ doubleClickActive' = r.doubleClickActive
    /\ shouldExit' = r.shouldExit
    /\ currentDesktop' = r.currentDesktop
    /\ last' = event
    /\ xreq' = SelectSeq(r.calls, IsXRequest)
    /\ UNCHANGED <<hints, focusModel, srv, serverGrabbed>>

\* The same for a handler run on its own, outside the event loop.
Commit(m, event) == Settle(m, event) /\ UNCHANGED loopVars

Idle == xreq = <<>>

MapRequestOn(W) ==
  /\ Idle
  /\ \E w \in W, ok \in BOOLEAN :
       LET event == [type |-> "MapRequest", window |-> w]
       IN  Commit(HandleMapRequest(Cur, event, [addOk |-> ok]), event)

UnmapNotify ==
  /\ Idle
  /\ \E w \in WindowIds :
       LET event == [type |-> "UnmapNotify", window |-> w]
       IN  Commit(HandleUnmapNotify(Cur, event), event)

DestroyNotify ==
  /\ Idle
  /\ \E w \in WindowIds :
       LET event == [type |-> "DestroyNotify", window |-> w]
       IN  Commit(HandleDestroyNotify(Cur, event).m, event)

\* A client unmaps its own mapped window: the server takes it off the
\* screen and the window manager handles the UnmapNotify that results.
ClientUnmaps(W) ==
  /\ Idle
  /\ \E w \in W :
       /\ srv[w].mapped
       /\ LET event == [type |-> "UnmapNotify", window |-> w]
              r     == HandleUnmapNotify(Cur, event)
          IN  /\ nodes' = r.nodes
              /\ calls' = r.calls
              /\ last' = event
              /\ xreq' = SelectSeq(r.calls, IsXRequest)
       /\ srv' = [srv EXCEPT ![w].mapped = FALSE]
  /\ UNCHANGED <<hints, focusModel, showMenuOnRoot, lastClickTime, lastX, lastY,
                 doubleClickActive, shouldExit, currentDesktop, serverGrabbed,
                 loopVars>>

\* An interactive move or resize installs its controller on the client for
\* as long as it runs, and clears it when it ends.
SetController ==
  /\ Idle
  /\ \E np \in 1..Len(nodes), b \in BOOLEAN :
       /\ nodes[np].controller # b
       /\ nodes' = [nodes EXCEPT ![np].controller = b]
       /\ calls' = <<>>
       /\ last' = [type |-> "SetController", window |-> nodes[np].window]
  /\ UNCHANGED <<hints, focusModel, showMenuOnRoot, lastClickTime, lastX, lastY,
                 doubleClickActive, shouldExit, currentDesktop, srvVars, loopVars>>

\* The configuration layer sets the root-menu flag; any int is accepted.
CallSetShowMenuOnRoot ==
  /\ Idle
  /\ \E v \in {0, 1, 2} :
       Commit(SetShowMenuOnRoot(Cur, v),
              [type |-> "SetShowMenuOnRoot", window |-> None, v |-> v])

\* Fields the value mask does not select are not read: they are left 0.
ConfigureEvents(W) ==
  { [type |-> "ConfigureRequest", window |-> w, value_mask |-> mask,
     x |-> x, y |-> y, width |-> width, height |-> height] :
      w \in W, mask \in SUBSET {"CWX", "CWY", "CWWidth", "CWHeight"},
      x \in Positions, y \in Positions, width \in Sizes \cup {0},
      height \in Sizes \cup {0} }

SelectedOnly(event) ==
  /\ ("CWX" \in event.value_mask \/ event.x = 0)
  /\ ("CWY" \in event.value_mask \/ event.y = 0)
  /\ ("CWWidth" \in event.value_mask <=> event.width # 0)
  /\ ("CWHeight" \in event.value_mask <=> event.height # 0)

ConfigureRequestOn(W) ==
  /\ Idle
  /\ \E event \in ConfigureEvents(W) :
       /\ SelectedOnly(event)
       /\ Commit(HandleConfigureRequest(Cur, event), event)

\* _NET_WM_DESKTOP payloads: negative, the sentinel, every valid index, the
\* index one past the last and the one after it.
DesktopMessages ==
  { [message_type |-> "ATOM_NET_WM_DESKTOP", data |-> <<d, 0, 0>>] :
      d \in -2..(desktopCount + 1) }

StickyMessages ==
  { [message_type |-> "ATOM_NET_WM_STATE",
     data |-> <<a, ATOM_NET_WM_STATE_STICKY, 0>>] : a \in {0, 1} }

ClientMessageOn(W, Msgs) ==
  /\ Idle
  /\ \E w \in W, msg \in Msgs :
       LET event == [type |-> "ClientMessage", window |-> w,
                     message_type |-> msg.message_type, data |-> msg.data]
       IN  Commit(HandleClientMessage(Cur, event), event)

KeyTypes ==
  (KEY_NONE..KEY_EXIT) \cup { KEY_DESKTOP + 256 * k : k \in 1..(desktopCount + 1) }

KeyPressOn(W) ==
  /\ Idle
  /\ \E w \in W, k \in KeyTypes :
       LET event == [type |-> "KeyPress", subwindow |-> w, keycode |-> k]
       IN  Commit(HandleKeyPress(Cur, event), event)

\* Pointer coordinates and event times: equal to, exactly at, and just
\* beyond the double-click limits from 0.
ClickCoords == {0, doubleClickDelta, doubleClickDelta + 1}
ClickTimes == {0, doubleClickSpeed, doubleClickSpeed + 1}

ButtonOn(W, Buttons, Actions) ==
  /\ Idle
  /\ \E w \in W, b \in Buttons, t \in {"ButtonPress", "ButtonRelease"},
        x \in ClickCoords, y \in ClickCoords, time \in ClickTimes,
        action \in Actions, moved \in {0, 1} :
       LET event == [type |-> t, window |-> w, button |-> b,
                     x |-> x, y |-> y, time |-> time]
       IN  Commit(HandleButtonEvent(Cur, event, [action |-> action, moved |-> moved]),
                  event)

\* A button event at one spot and one time, in any zone of the frame.
FrameButtonOn(W, Buttons) ==
  /\ Idle
  /\ \E w \in W, b \in Buttons, t \in {"ButtonPress", "ButtonRelease"},
        action \in BorderActions, moved \in {0, 1} :
       LET event == [type |-> t, window |-> w, button |-> b,
                     x |-> 0, y |-> 0, time |-> 0]
       IN  Commit(HandleButtonEvent(Cur, event, [action |-> action, moved |-> moved]),
                  event)

\* The pointer enters a window, over any zone of a frame.
EnterNotifyOn(W) ==
  /\ Idle
  /\ \E w \in W, action \in BorderActions :
       LET event == [type |-> "EnterNotify", window |-> w, x |-> 0, y |-> 0]
       IN  Commit(HandleEnterNotify(Cur, event, [action |-> action, moved |-> 0]), event)

\* The pointer moves over a window, over any zone of a frame.
MotionNotifyOn(W) ==
  /\ Idle
  /\ \E w \in W, h \in {0, 1}, action \in BorderActions :
       LET event == [type |-> "MotionNotify", window |-> w, x |-> 0, y |-> 0,
                     is_hint |-> h]
       IN  Commit(HandleMotionNotify(Cur, event, [action |-> action, moved |-> 0]), event)

\* Button1 in the move zone of a frame, at one spot, early or late.
MoveZoneButtonOn(W) ==
  /\ Idle
  /\ \E w \in W, t \in {"ButtonPress", "ButtonRelease"},
        time \in {0, doubleClickSpeed + 1}, moved \in {0, 1} :
       LET event == [type |-> t, window |-> w, button |-> 1,
                     x |-> 0, y |-> 0, time |-> time]
       IN  Commit(HandleButtonEvent(Cur, event, [action |-> "BA_MOVE", moved |-> moved]),
                  event)

\* An event taken on its own through both halves of the dispatch: the switch
\* of WaitForEvent and, when the core leaves it unhandled and every
\* collaborator declines it, ProcessEvent.  No event is taken once shutdown
\* was requested.
Deliver(E) ==
  /\ Idle
  /\ shouldExit = 0
  /\ \E event \in E :
       LET env == [addOk |-> TRUE, action |-> "BA_NONE", moved |-> 0]
           r   == WaitForEventSwitch(Cur, event, env)
       IN  IF r.ret # 0
           THEN Commit(r.m, event)
           ELSE Commit(ProcessEvent(r.m, event, <<>>, env).m, event)

\* One window, which is a stranger until it is registered, and the root.
AllWindows == {1}
AllIds == {rootWindow, 1, ParentOf(1)}

KeyEvents(W) ==
  { [type |-> "KeyPress", window |-> w, subwindow |-> w, keycode |-> k] :
      w \in W, k \in KeyTypes }

PropertyEvents(W) ==
  { [type |-> "PropertyNotify", window |-> w, atom |-> a] : w \in W, a \in PropertyAtoms }

ButtonEvents(W) ==
  { [type |-> t, window |-> w, button |-> b, x |-> 0, y |-> 0, time |-> 0] :
      t \in {"ButtonPress", "ButtonRelease"}, w \in W, b \in {1, 3} }

CrossingEvents(W) ==
  { [type |-> t, window |-> w, x |-> 0, y |-> 0] :
      t \in {"EnterNotify", "LeaveNotify"}, w \in W }

MotionEvents(W) ==
  { [type |-> "MotionNotify", window |-> w, x |-> 0, y |-> 0, is_hint |-> h] :
      w \in W, h \in {0, 1} }

ColormapEvents(W) ==
  { [type |-> "ColormapNotify", window |-> w, new |-> n, colormap |-> 0] :
      w \in W, n \in BOOLEAN }

ExposeEvents(W) ==
  { [type |-> "Expose", window |-> w, count |-> c] : w \in W, c \in {0, 1} }

PlainEvents(W) ==
  { [type |-> t, window |-> w] :
      t \in {"UnmapNotify", "DestroyNotify", "ConfigureNotify", "KeyRelease"}
             \cup IgnoredTypes,
      w \in W }

\* Client messages of every type, carrying the value desktopCount.
MessageEvents(W) ==
  { [type |-> "ClientMessage", window |-> w, message_type |-> t, data |-> <<d, a, 0>>] :
      w \in W,
      t \in { "ATOM_WIN_STATE", "ATOM_WIN_LAYER", "ATOM_WM_CHANGE_STATE",
              "ATOM_NET_ACTIVE_WINDOW", "ATOM_NET_WM_DESKTOP", "ATOM_NET_CLOSE_WINDOW",
              "ATOM_NET_WM_STATE", "ATOM_OTHER" },
      d \in {desktopCount},
      a \in {0} }

AllEvents ==
  KeyEvents(AllIds) \cup PropertyEvents(AllIds) \cup ButtonEvents(AllIds)
  \cup CrossingEvents(AllIds) \cup MotionEvents(AllIds) \cup ColormapEvents(AllIds)
  \cup ExposeEvents(AllIds) \cup PlainEvents(AllIds) \cup MessageEvents(AllIds)
  \cup { [type |-> "MapRequest", window |-> w] : w \in AllWindows }
  \cup { [type |-> "ConfigureRequest", window |-> w, value_mask |-> {"CWWidth"},
          x |-> 0, y |-> 0, width |-> 1, height |-> 0] : w \in AllIds \ {rootWindow} }

\* Events the display connection delivers to the event loop.
LoopWindows == {1}

LoopEvents ==
  { [type |-> "MapRequest", window |-> w] : w \in LoopWindows }
  \cup { [type |-> "DestroyNotify", window |-> w] : w \in LoopWindows }
  \cup { [type |-> "MapNotify", window |-> w] : w \in LoopWindows }
  \cup { [type |-> "PropertyNotify", window |-> rootWindow, atom |-> "ATOM_JWM_EXIT"] }
  \cup { [type |-> "MotionNotify", window |-> ParentOf(w), x |-> x, y |-> 0, is_hint |-> 0] :
           w \in LoopWindows, x \in Positions }
  \cup { [type |-> "KeyPress", subwindow |-> w, keycode |-> KEY_SHADE] : w \in LoopWindows }

\* The server or a client puts an event on the connection.
Arrive ==
  /\ pc # "done"
  /\ Len(queue) < MaxQueue
  /\ \E e \in LoopEvents : queue' = Append(queue, e)
  /\ UNCHANGED <<wmVars, srvVars, handled, pc>>

\* Nothing pending for a second: select() times out and the taskbar is signalled.
IdleTick ==
  /\ pc = "WaitForEvent"
  /\ Idle
  /\ queue = <<>>
  /\ Settle(Call(Cur, "SignalTaskbar", 0, 0), last)
  /\ UNCHANGED loopVars

\* One iteration of the loop of WaitForEvent, which returns to its caller
\* when the loop ends.
WaitForEvent ==
  /\ pc = "WaitForEvent"
  /\ Idle
  /\ queue # <<>>
  /\ \E ok \in BOOLEAN, tray \in {0, 1}, dialog \in {0, 1}, swallow \in {0, 1},
        popup \in {0, 1} :
       LET event == Head(queue)
           r == WaitForEventIteration(Cur, event,
                  [addOk |-> ok, tray |-> tray, dialog |-> dialog,
                   swallow |-> swallow, popup |-> popup])
       IN  /\ Settle(r.m, event)
           /\ queue' = Tail(queue)
           /\ handled' = r.ret
           /\ pc' = IF LoopContinues(r.ret, r.m.shouldExit)
                    THEN "WaitForEvent" ELSE "ProcessEvent"

\* The caller passes the event WaitForEvent returned to ProcessEvent and
\* waits again unless shutdown was requested.
EventLoop ==
  /\ pc = "ProcessEvent"
  /\ Idle
  /\ \E action \in {"BA_NONE", "BA_MOVE"}, moved \in {0} :
       LET r == ProcessEvent(Cur, last, queue, [action |-> action, moved |-> moved])
       IN  /\ Settle(r.m, r.event)
           /\ queue' = r.queue
           /\ pc' = IF r.m.shouldExit # 0 THEN "done" ELSE "WaitForEvent"
           /\ UNCHANGED handled

InitLoop ==
  /\ queue = <<>>
  /\ handled = 0
  /\ pc = "WaitForEvent"

InitStatics ==
  /\ showMenuOnRoot = 1
  /\ lastClickTime = 0
  /\ lastX = 0
  /\ lastY = 0
  /\ doubleClickActive = 0
  /\ shouldExit = 0
  /\ currentDesktop = 0

Init ==
  /\ nodes = <<>>
  /\ hints = [w \in Windows |-> HintState({"BORDER_OUTLINE", "BORDER_TITLE"})]
  /\ focusModel \in FocusModels
  /\ InitStatics
  /\ InitLoop
  /\ calls = <<>>
  /\ last = [type |-> "None", window |-> None]
  /\ xreq = <<>>
  /\ srv = [w \in WindowIds \ {rootWindow} |-> InitWindow]
  /\ serverGrabbed = FALSE

Next ==
  \/ MapRequestOn(Windows)
  \/ UnmapNotify
  \/ DestroyNotify
  \/ SetController
  \/ ServerStep

Spec == Init /\ [][Next]_vars

(* Desktop assignment: two windows, desktop and sticky requests. *)

DeskWindows == {1, 2}

NextDesk ==
  \/ MapRequestOn(DeskWindows)
  \/ ClientMessageOn({rootWindow} \cup DeskWindows \cup {ParentOf(w) : w \in DeskWindows},
                     DesktopMessages \cup StickyMessages)
  \/ SetController
  \/ ServerStep

SpecDesk == Init /\ [][NextDesk]_vars

(* Key commands: one window, every key, under both focus models. *)

KeyWindows == {1}

NextKey ==
  \/ MapRequestOn(KeyWindows)
  \/ KeyPressOn(WindowIds)
  \/ DestroyNotify
  \/ ServerStep

SpecKey == Init /\ [][NextKey]_vars

(* Double click: one outlined window, Button1 on its frame. *)

ClickWindows == {1}

NextClick ==
  \/ MapRequestOn(ClickWindows)
  \/ ButtonOn({ParentOf(w) : w \in ClickWindows}, {1}, {"BA_MOVE", "BA_RESIZE_N"})
  \/ ServerStep

SpecClick == Init /\ [][NextClick]_vars

(* Frame buttons: one outlined window, Button1 and Button2 in every zone. *)

BorderWindows == {1}

NextBorder ==
  \/ MapRequestOn(BorderWindows)
  \/ FrameButtonOn({ParentOf(w) : w \in BorderWindows}, {1, 2})
  \/ ServerStep

SpecBorder == Init /\ [][NextBorder]_vars

(* Configure requests: one window, every border style, varying geometry. *)

CfgWindows == {1}

InitCfg ==
  /\ nodes = <<>>
  /\ \E b \in BorderChoices : hints = [w \in Windows |-> HintState(b)]
  /\ focusModel = "FOCUS_SLOPPY"
  /\ InitStatics
  /\ InitLoop
  /\ calls = <<>>
  /\ last = [type |-> "None", window |-> None]
  /\ xreq = <<>>
  /\ srv = [w \in WindowIds \ {rootWindow} |-> InitWindow]
  /\ serverGrabbed = FALSE

NextCfg ==
  \/ MapRequestOn(CfgWindows)
  \/ ConfigureRequestOn(CfgWindows)
  \/ SetController
  \/ ServerStep

SpecCfg == InitCfg /\ [][NextCfg]_vars

(* Client messages: two windows, well-formed and malformed payloads. *)

MsgWindows == {1, 2}

StateMessages ==
  { [message_type |-> "ATOM_WM_CHANGE_STATE", data |-> <<d, 0, 0>>] :
      d \in {-1, WithdrawnState, NormalState, 2, IconicState} }
  \cup { [message_type |-> "ATOM_NET_WM_STATE",
          data |-> <<a, ATOM_NET_WM_STATE_STICKY, ATOM_NET_WM_STATE_SHADED>>] :
          a \in {-1, 2, 3} }
  \cup { [message_type |-> "ATOM_OTHER", data |-> <<0, 0, 0>>] }

NextMsg ==
  \/ MapRequestOn(MsgWindows)
  \/ ClientMessageOn(MsgWindows \cup {ParentOf(1)}, StateMessages)
  \/ SetController
  \/ ServerStep

SpecMsg == Init /\ [][NextMsg]_vars

(* _NET_WM_STATE: one window, every action with every pair of atoms. *)

NetStateWindows == {1}

NetStateAtoms ==
  { 0, ATOM_NET_WM_STATE_STICKY, ATOM_NET_WM_STATE_MAXIMIZED_VERT,
    ATOM_NET_WM_STATE_MAXIMIZED_HORZ, ATOM_NET_WM_STATE_SHADED,
    ATOM_NET_WM_STATE_FULLSCREEN }

NetStateMessages ==
  { [message_type |-> "ATOM_NET_WM_STATE", data |-> <<a, p, q>>] :
      a \in 0..3, p \in NetStateAtoms, q \in NetStateAtoms }

NextNetState ==
  \/ MapRequestOn(NetStateWindows)
  \/ ClientMessageOn(NetStateWindows, NetStateMessages)
  \/ ServerStep

SpecNetState == Init /\ [][NextNetState]_vars

(* Mapping: two windows mapped, unmapped, iconified, withdrawn, restored. *)

MapWindows == {1, 2}

ChangeStateMessages ==
  { [message_type |-> "ATOM_WM_CHANGE_STATE", data |-> <<d, 0, 0>>] :
      d \in {WithdrawnState, NormalState, IconicState} }

NextMap ==
  \/ MapRequestOn(MapWindows)
  \/ ClientUnmaps(MapWindows)
  \/ UnmapNotify
  \/ ClientMessageOn(MapWindows, ChangeStateMessages)
  \/ ServerStep

SpecMap == Init /\ [][NextMap]_vars

(* Border zones: one window of every border style under the pointer. *)

ZoneWindows == {1}
ZoneFrames == {ParentOf(w) : w \in ZoneWindows}

NextZone ==
  \/ MapRequestOn(ZoneWindows)
  \/ EnterNotifyOn(ZoneWindows \cup ZoneFrames)
  \/ MotionNotifyOn(ZoneFrames)
  \/ FrameButtonOn(ZoneFrames, {1})
  \/ ServerStep

SpecZone == InitCfg /\ [][NextZone]_vars

(* Clicks on two frames: two outlined windows, Button1 on their title bars. *)

PairWindows == {1, 2}

NextPair ==
  \/ MapRequestOn(PairWindows)
  \/ MoveZoneButtonOn({ParentOf(w) : w \in PairWindows})
  \/ ServerStep

SpecPair == Init /\ [][NextPair]_vars

(* The window menu: one window of every border style, moved and resized,
   Button3 on its frame. *)

MenuWindows == {1}

NextMenu ==
  \/ MapRequestOn(MenuWindows)
  \/ ConfigureRequestOn(MenuWindows)
  \/ FrameButtonOn({ParentOf(w) : w \in MenuWindows}, {3})
  \/ ServerStep

SpecMenu == InitCfg /\ [][NextMenu]_vars

(* Stale references: two windows, events naming ids registered or not. *)

StaleWindows == {1, 2}
StaleIds == StaleWindows \cup {ParentOf(w) : w \in StaleWindows}

StaleEvents ==
  MessageEvents(StaleIds) \cup PropertyEvents(StaleIds) \cup CrossingEvents(StaleIds)
  \cup MotionEvents(StaleIds)
  \cup { [type |-> t, window |-> w] : t \in {"UnmapNotify", "DestroyNotify"}, w \in StaleIds }
  \cup { [type |-> "ColormapNotify", window |-> w, new |-> TRUE, colormap |-> 1] :
           w \in StaleIds }

NextStale ==
  \/ MapRequestOn(StaleWindows)
  \/ Deliver(StaleEvents)
  \/ ServerStep

SpecStale == Init /\ [][NextStale]_vars

(* Every event type, on one window, its frame, the root and a stranger. *)

NextAll ==
  \/ Deliver(AllEvents)
  \/ ServerStep

SpecAll == Init /\ [][NextAll]_vars

(* The root menu: events of every handler, with the flag set and cleared. *)

RootEvents ==
  ButtonEvents(AllIds) \cup MessageEvents(AllIds) \cup PropertyEvents(AllIds)
  \cup CrossingEvents(AllIds) \cup MotionEvents(AllIds) \cup ExposeEvents(AllIds)
  \cup PlainEvents(AllIds)
  \cup { e \in KeyEvents(AllIds) : e.keycode \in {KEY_ROOT, KEY_WIN} }
  \cup { [type |-> "MapRequest", window |-> w] : w \in AllWindows }

NextRoot ==
  \/ Deliver(RootEvents)
  \/ CallSetShowMenuOnRoot
  \/ ServerStep

SpecRoot == Init /\ [][NextRoot]_vars

(* The event loop: one window, events queued on the connection. *)

NextLoop ==
  \/ Arrive
  \/ IdleTick
  \/ WaitForEvent
  \/ EventLoop
  \/ ServerStep

SpecLoop == Init /\ [][NextLoop]_vars

(* ================================================================ claims *)

CountCalls(cs, c) == Cardinality({ i \in DOMAIN cs : cs[i] = c })
Called(cs, c) == \E i \in DOMAIN cs : cs[i] = c
CalledBefore(cs, c, d) ==
  \E i, j \in DOMAIN cs : i < j /\ cs[i] = c /\ cs[j] = d
Registered(list, w) == \E i \in DOMAIN list : list[i].window = w

(* C1: when a step removes a client that has a controller installed, the
   handler's call trace holds exactly one controller(1) for that client and
   it comes before RemoveClient; an UnmapNotify for a window that resolves
   to no client makes no call and leaves the registry as it was. *)
C1_EndingOnceBeforeRemoval ==
  [][ /\ \A i \in DOMAIN nodes :
           LET c == nodes[i]
           IN  (c.controller /\ ~Registered(nodes', c.window)) =>
                 /\ CountCalls(calls', <<"controller", c.window, 1>>) = 1
                 /\ CalledBefore(calls', <<"controller", c.window, 1>>,
                                         <<"RemoveClient", c.window, 0>>)
      /\ (last'.type = "UnmapNotify"
            /\ FindClientByWindow(Cur, last'.window) = None) =>
           (calls' = <<>> /\ nodes' = nodes)
    ]_vars

\* A client with a controller was just removed by DestroyNotify.
C1_Witness ==
  /\ last.type = "DestroyNotify"
  /\ ~Registered(nodes, last.window)
  /\ calls = << <<"controller", last.window, 1>>,
                <<"RemoveClient", last.window, 0>>,
                <<"JXReparentWindow", last.window, 0, 0>>,
                <<"JXDestroyWindow", ParentOf(last.window), 0>> >>

(* C5: no two registered clients share a content window id or a
   decoration window id. *)
C5_OneClientPerWindow ==
  \A i, j \in DOMAIN nodes :
    i # j => (nodes[i].window # nodes[j].window /\ nodes[i].parent # nodes[j].parent)

\* A MapRequest for an already registered window was handled, with another
\* client registered as well, and AddClientWindow was not called.
C5_Witness ==
  /\ last.type = "MapRequest"
  /\ Len(nodes) = 2
  /\ Registered(nodes, last.window)
  /\ \A i \in DOMAIN calls : calls[i][1] # "AddClientWindow"

(* C9: after a MapRequest whose AddClientWindow failed, no client exists
   for the window, the handler's trace is sync, grab, the failed add, the
   unmanaged map, ungrab, sync, restack, and the step registered nothing;
   once the server has applied the handler's requests the window is mapped;
   and whenever the server has applied all requests of a handler, the
   server is not grabbed (success and failure alike). *)
C9_FailedAdd ==
  /\ last.type = "MapRequest"
  /\ Called(calls, <<"AddClientWindow", last.window, 0>>)

C9_MapFailureFallsBack ==
  /\ [](C9_FailedAdd =>
          /\ ~Registered(nodes, last.window)
          /\ calls = << <<"JXSync", 0, 0>>, <<"JXGrabServer", 0, 0>>,
                        <<"AddClientWindow", last.window, 0>>,
                        <<"JXMapWindow", last.window, 0>>,
                        <<"JXUngrabServer", 0, 0>>, <<"JXSync", 0, 0>>,
                        <<"RestackClients", 0, 0>> >>
          /\ (Idle => srv[last.window].mapped))
  /\ [](Idle => ~serverGrabbed)
  /\ [][C9_FailedAdd' => nodes' = nodes]_vars

\* The failed registration has been handled and its requests applied,
\* while another client is registered.
C9_Witness ==
  /\ C9_FailedAdd
  /\ Idle
  /\ Len(nodes) = 1
  /\ srv[last.window].mapped
  /\ ~serverGrabbed

(* C2: in every state, intermediate ones included, the content window of
   every registered client plus the border insets fits in its decoration
   window. *)
ContentWithinFrame(c) ==
  LET in == ConfigureInsets(c.state.border)
  IN  /\ srv[c.window].width + in.east + in.west <= srv[c.parent].width
      /\ srv[c.window].height + in.north + in.south <= srv[c.parent].height

C2_ContentWithinFrame ==
  (last.type = "ConfigureRequest") =>
     \A i \in DOMAIN nodes : ContentWithinFrame(nodes[i])

(* C4: a _NET_WM_DESKTOP message whose index is neither in
   [0, desktopCount) nor the all-desktops sentinel leaves the whole client
   list, and with it the target's desktop and sticky flag, as it was. *)
C4_BadIndex ==
  /\ last.type = "ClientMessage"
  /\ last.message_type = "ATOM_NET_WM_DESKTOP"
  /\ last.data[1] # AllDesktops
  /\ ~(last.data[1] \in 0..(desktopCount - 1))

C4_BadDesktopRejected ==
  [][C4_BadIndex' => nodes' = nodes]_vars

\* The index desktopCount was sent to a registered sticky client that has
\* a controller installed, and handled.
C4_Witness ==
  /\ C4_BadIndex
  /\ last.data[1] = desktopCount
  /\ \E i \in DOMAIN nodes :
       /\ nodes[i].window = last.window
       /\ nodes[i].controller
       /\ "STAT_STICKY" \in nodes[i].state.status
       /\ calls = << <<"controller", last.window, 0>> >>

(* C10: a key press whose command needs a target client, handled when no
   target resolves (under click-focus no client has the event's sub-window
   as its content or decoration window; otherwise no client is active),
   calls nothing beyond the key lookup and leaves the client list, the
   desktop and the shutdown flag as they were. *)
TargetCommands ==
  {KEY_CLOSE, KEY_SHADE, KEY_MOVE, KEY_RESIZE, KEY_MIN, KEY_MAX, KEY_WIN}

C10_NoTarget(event) ==
  IF focusModel = "FOCUS_CLICK"
  THEN \A i \in DOMAIN nodes :
         nodes[i].window # event.subwindow /\ nodes[i].parent # event.subwindow
  ELSE \A i \in DOMAIN nodes : "STAT_ACTIVE" \notin nodes[i].state.status

C10_NoTargetNoOp ==
  [][ (Idle /\ last'.type = "KeyPress"
         /\ KeyCommand(last'.keycode) \in TargetCommands
         /\ C10_NoTarget(last')) =>
        /\ nodes' = nodes
        /\ calls' = << <<"GetKey", 0, last'.keycode>> >>
        /\ xreq' = <<>>
        /\ currentDesktop' = currentDesktop
        /\ shouldExit' = shouldExit
    ]_vars

\* Under click-focus a target command arrived with a sub-window that is no
\* client's while an active, unshaded, mapped client exists, and did nothing.
C10_Witness ==
  /\ last.type = "KeyPress"
  /\ KeyCommand(last.keycode) = KEY_SHADE
  /\ focusModel = "FOCUS_CLICK"
  /\ C10_NoTarget(last)
  /\ calls = << <<"GetKey", 0, last.keycode>> >>
  /\ \E i \in DOMAIN nodes :
       /\ "STAT_ACTIVE" \in nodes[i].state.status
       /\ "STAT_SHADED" \notin nodes[i].state.status

(* C3: a Button1 press that resolves to the move zone of an outlined
   client toggles shade and starts no move when the detector is armed and
   the press is within doubleClickSpeed of the recorded time and within
   doubleClickDelta of the recorded position on both axes; in every other
   case it starts a move and does not toggle shade. *)
C3_MovePress(event, cs) ==
  /\ event.type = "ButtonPress"
  /\ event.button = 1
  /\ \E i \in DOMAIN cs : cs[i][1] = "GetBorderActionType" /\ cs[i][3] = "BA_MOVE"

C3_Within(event) ==
  /\ doubleClickActive = 1
  /\ event.time - lastClickTime <= doubleClickSpeed
  /\ lastClickTime - event.time <= doubleClickSpeed
  /\ event.x - lastX <= doubleClickDelta
  /\ lastX - event.x <= doubleClickDelta
  /\ event.y - lastY <= doubleClickDelta
  /\ lastY - event.y <= doubleClickDelta

C3_Shaded(list, parent) ==
  \E i \in DOMAIN list :
    list[i].parent = parent /\ "STAT_SHADED" \in list[i].state.status

C3_CallCount(cs, names) ==
  Cardinality({ i \in DOMAIN cs : cs[i][1] \in names })

C3_ShadeOrMove ==
  [][ (Idle /\ C3_MovePress(last', calls')) =>
        IF C3_Within(last')
        THEN /\ C3_Shaded(nodes', last'.window) # C3_Shaded(nodes, last'.window)
             /\ C3_CallCount(calls', {"ShadeClient", "UnshadeClient"}) = 1
             /\ C3_CallCount(calls', {"MoveClient"}) = 0
        ELSE /\ C3_Shaded(nodes', last'.window) = C3_Shaded(nodes, last'.window)
             /\ C3_CallCount(calls', {"ShadeClient", "UnshadeClient"}) = 0
             /\ C3_CallCount(calls', {"MoveClient"}) = 1
    ]_vars

\* The second press of a pair one pixel apart on each axis and within the
\* time limit was handled: the client is shaded and the detector disarmed.
C3_Witness ==
  /\ C3_MovePress(last, calls)
  /\ last.time = doubleClickSpeed
  /\ last.x = doubleClickDelta
  /\ last.y = doubleClickDelta
  /\ lastClickTime = 0 /\ lastX = 0 /\ lastY = 0
  /\ doubleClickActive = 0
  /\ C3_Shaded(nodes, last.window)
  /\ Called(calls, <<"ShadeClient", last.window - MaxWindows, 0>>)

(* C6: events are handled in the order they are dequeued; the only events
   removed out of turn are the MotionNotify events ProcessEvent drains when
   it is given a MotionNotify, of which it acts on the most recent one; no
   other event is dropped and the other events keep their relative order. *)
C6_NonMotion(e) == e.type # "MotionNotify"

C6_LastMotion(q, event) ==
  LET idx == { i \in DOMAIN q : q[i].type = "MotionNotify" }
  IN  IF idx = {} THEN event
      ELSE q[CHOOSE i \in idx : \A j \in idx : j <= i]

C6_ArrivalOrder ==
  [][ LET nm  == SelectSeq(queue, C6_NonMotion)
          nm2 == SelectSeq(queue', C6_NonMotion)
      IN  /\ (pc = "WaitForEvent" /\ Len(queue') < Len(queue)) =>
                (last' = Head(queue) /\ queue' = Tail(queue))
          /\ (pc = "ProcessEvent" /\ pc' # "ProcessEvent") =>
                IF last.type = "MotionNotify"
                THEN /\ queue' = nm
                     /\ last' = C6_LastMotion(queue, last)
                     /\ C3_CallCount(calls', {"GetBorderActionType"}) <= 1
                ELSE queue' = queue /\ last' = last
          /\ \/ nm2 = nm
             \/ Len(nm2) = Len(nm) + 1 /\ SubSeq(nm2, 1, Len(nm)) = nm
             \/ /\ nm # <<>>
                /\ nm2 = Tail(nm)
                /\ Head(queue) = Head(nm)
                /\ last' = Head(nm)
                /\ pc = "WaitForEvent"
    ]_vars

\* ProcessEvent was given the older of two motion samples with a key press
\* queued between them: it drained the newer sample, acted on it once, and
\* left the key press queued.
C6_Witness ==
  /\ pc = "WaitForEvent"
  /\ last.type = "MotionNotify"
  /\ last.x = 1
  /\ CountCalls(calls, <<"JXCheckTypedEvent", 0, 1>>) = 1
  /\ Called(calls, <<"GetBorderActionType", 1, "BA_MOVE">>)
  /\ Len(queue) = 1
  /\ queue[1].type = "KeyPress"

(* C7: WaitForEvent tests shouldExit only at the end of an iteration, after
   the typed handler and the collaborator offers for the event have run; it
   loops again exactly when the event was handled and shouldExit is clear,
   and returns otherwise. *)
C7_Iteration == pc = "WaitForEvent" /\ queue # <<>> /\ queue' = Tail(queue)

C7_ExitCheckedAtEnd ==
  [][ C7_Iteration =>
        /\ calls' # <<>>
        /\ calls'[Len(calls')][1] = "ProcessPopupEvent"
        /\ (pc' = "WaitForEvent") = (handled' # 0 /\ shouldExit' = 0)
        /\ (pc' = "ProcessEvent") = ~(handled' # 0 /\ shouldExit' = 0)
    ]_vars

\* The handler of a handled event requested shutdown: the popup collaborator
\* was still offered the event, and then WaitForEvent returned.
C7_Witness ==
  /\ pc = "ProcessEvent"
  /\ handled = 1
  /\ shouldExit = 1
  /\ last.type = "PropertyNotify"
  /\ CalledBefore(calls, <<"Exit", 0, 0>>, <<"ProcessPopupEvent", 0, 0>>)

(* C8: an event the core did not handle is offered to the tray, then the
   dialog, then the swallow collaborator, each only if no earlier layer
   handled it; an event the core handled is offered to no collaborator,
   the popup collaborator included. *)
C8_Collaborators ==
  { "ProcessTrayEvent", "ProcessDialogEvent", "ProcessSwallowEvent", "ProcessPopupEvent" }

C8_IsOffer(c) == c[1] \in C8_Collaborators

C8_Chain(offers) ==
  LET order == <<"ProcessTrayEvent", "ProcessDialogEvent", "ProcessSwallowEvent">>
      three == SelectSeq(offers, LAMBDA c : c[1] # "ProcessPopupEvent")
  IN  /\ Len(three) \in 1..3
      /\ \A i \in DOMAIN three :
           /\ three[i][1] = order[i]
           /\ i < Len(three) => three[i][3] = 0
      /\ Len(three) < 3 => three[Len(three)][3] # 0
      /\ \A i \in DOMAIN offers :
           offers[i][1] = "ProcessPopupEvent" => i = Len(offers)

C8_OfferedOnlyUnhandled ==
  [][ C7_Iteration =>
        LET offers == SelectSeq(calls', C8_IsOffer)
            core   == WaitForEventSwitch(Cur, last', [addOk |-> TRUE]).ret
        IN  IF core # 0 THEN offers = <<>> ELSE C8_Chain(offers)
    ]_vars

(* C11: Restart and Exit are called, and the shutdown flag is set, only by
   the handler of a key press whose command is restart or exit, or of a
   property change on the root window for the restart or exit atom. *)
C11_Invoked(cs) == \E i \in DOMAIN cs : cs[i][1] \in {"Restart", "Exit"}

C11_Explicit(event) ==
  \/ /\ event.type = "KeyPress"
     /\ (event.keycode % 256) \in {KEY_RESTART, KEY_EXIT}
  \/ /\ event.type = "PropertyNotify"
     /\ event.window = rootWindow
     /\ event.atom \in {"ATOM_JWM_RESTART", "ATOM_JWM_EXIT"}

C11_OnlyOnRequest ==
  [][ (C11_Invoked(calls') \/ shouldExit' # shouldExit) => C11_Explicit(last') ]_vars

\* With a client registered, the exit atom changed on the root window and
\* Exit was called.
C11_Witness ==
  /\ nodes # <<>>
  /\ last.type = "PropertyNotify"
  /\ last.atom = "ATOM_JWM_EXIT"
  /\ calls = << <<"Exit", 0, 0>> >>
  /\ shouldExit = 1

(* C12: a client message with a _NET_WM_STATE action other than 0, 1, 2, a
   WM_CHANGE_STATE value other than withdrawn, iconic, normal, or a message
   type the handler does not know changes no client, the target included,
   and does not request shutdown. *)
C12_Malformed(event) ==
  /\ event.type = "ClientMessage"
  /\ \/ /\ event.message_type = "ATOM_NET_WM_STATE"
        /\ event.data[1] \notin {0, 1, 2}
     \/ /\ event.message_type = "ATOM_WM_CHANGE_STATE"
        /\ event.data[1] \notin {WithdrawnState, IconicState, NormalState}
     \/ event.message_type \notin
          { "ATOM_WIN_STATE", "ATOM_WIN_LAYER", "ATOM_WM_CHANGE_STATE",
            "ATOM_NET_ACTIVE_WINDOW", "ATOM_NET_WM_DESKTOP", "ATOM_NET_CLOSE_WINDOW",
            "ATOM_NET_WM_STATE" }

C12_MalformedIgnored ==
  [][ C12_Malformed(last') =>
        /\ nodes' = nodes
        /\ shouldExit' = shouldExit
        /\ \A i \in DOMAIN calls' :
             calls'[i][1] \in {"controller", "Debug", "JXGetAtomName"}
    ]_vars

\* A WM_CHANGE_STATE message with the value 2 reached a registered,
\* shaded client while a second, minimized client was registered.
C12_Witness ==
  /\ C12_Malformed(last)
  /\ last.message_type = "ATOM_WM_CHANGE_STATE"
  /\ last.data[1] = 2
  /\ Len(nodes) = 2
  /\ \E i, j \in DOMAIN nodes :
       /\ nodes[i].window = last.window
       /\ "STAT_SHADED" \in nodes[i].state.status
       /\ i # j
       /\ "STAT_MINIMIZED" \in nodes[j].state.status

(* C13: a ClientMessage, UnmapNotify, DestroyNotify, ColormapNotify,
   PropertyNotify off the root, EnterNotify, LeaveNotify or MotionNotify
   whose window is neither the content nor the decoration window of a
   registered client leaves the client list as it was. *)
C13_Types ==
  { "ClientMessage", "UnmapNotify", "DestroyNotify", "ColormapNotify",
    "PropertyNotify", "EnterNotify", "LeaveNotify", "MotionNotify" }

C13_Known(list, id) ==
  \E i \in DOMAIN list : list[i].window = id \/ list[i].parent = id

C13_Stale(list, event) ==
  /\ event.type \in C13_Types
  /\ event.window # rootWindow
  /\ ~C13_Known(list, event.window)

C13_StaleIgnored ==
  [][ C13_Stale(nodes, last') => nodes' = nodes ]_vars

\* Window 1 was registered and then destroyed while window 2 stayed
\* registered; a later colormap change naming window 1 was handled.
C13_Witness ==
  /\ last = [type |-> "ColormapNotify", window |-> 1, new |-> TRUE, colormap |-> 1]
  /\ calls = <<>>
  /\ Len(nodes) = 1
  /\ nodes[1].window = 2
  /\ srv[ParentOf(1)].mapped = FALSE
  /\ srv[1].mapped

(* C14: whenever the handler of a configure request, a client message or a
   key press changes the geometry or the lifecycle state of a registered
   client that has a controller installed, the handler has called that
   controller before anything else it does to the client. *)
C14_Shape(c) ==
  <<c.x, c.y, c.width, c.height, c.state.status \ {"STAT_ACTIVE"}, c.state.desktop>>

C14_ControllerFirst(cs, w) ==
  \E i \in DOMAIN cs :
    /\ cs[i][1] = "controller"
    /\ cs[i][2] = w
    /\ \A j \in 1..(i - 1) : cs[j][1] = "GetKey"

C14_ControllerBeforeChange ==
  [][ (last'.type \in {"ConfigureRequest", "ClientMessage", "KeyPress"}
       /\ Len(nodes') = Len(nodes)) =>
        \A i \in DOMAIN nodes :
          (nodes[i].controller /\ C14_Shape(nodes'[i]) # C14_Shape(nodes[i]))
            => C14_ControllerFirst(calls', nodes[i].window)
    ]_vars

(* C15: the show-menu-on-root flag starts set; a button event on the root
   window opens the root menu exactly when the flag is non-zero at that
   moment; and no step other than a call of SetShowMenuOnRoot changes the
   flag, so that after SetShowMenuOnRoot(0) no button event opens the root
   menu until the flag is set again. *)
C15_Opened(cs) == \E i \in DOMAIN cs : cs[i][1] = "ShowRootMenu"

C15_RootButton(event) ==
  /\ event.type \in {"ButtonPress", "ButtonRelease"}
  /\ event.window = rootWindow

C15_RootMenuIffFlag ==
  /\ showMenuOnRoot = 1
  /\ [][ /\ (C15_RootButton(last') /\ Idle) =>
              (C15_Opened(calls') <=> showMenuOnRoot # 0)
         /\ (showMenuOnRoot' # showMenuOnRoot) => last'.type = "SetShowMenuOnRoot"
       ]_vars

\* A root click after SetShowMenuOnRoot(0) opened nothing.
C15_Witness ==
  /\ C15_RootButton(last)
  /\ showMenuOnRoot = 0
  /\ ~C15_Opened(calls)
  /\ calls # <<>>

\* A root click after the flag was set again, to 2, opened the menu.
C15_WitnessReset ==
  /\ C15_RootButton(last)
  /\ showMenuOnRoot = 2
  /\ C15_Opened(calls)

(* C16: a configure request for a managed client in which no field selected
   by the value mask differs from the client's stored geometry leaves the
   registry as it was and issues no JXConfigureWindow, neither for the
   decoration nor for the content window. *)
C16_Managed(list, event) ==
  \E i \in DOMAIN list : list[i].window = event.window

C16_NothingDiffers(list, event) ==
  \A i \in DOMAIN list :
    list[i].window = event.window =>
      /\ ("CWWidth" \in event.value_mask => event.width = list[i].width)
      /\ ("CWHeight" \in event.value_mask => event.height = list[i].height)
      /\ ("CWX" \in event.value_mask => event.x = list[i].x)
      /\ ("CWY" \in event.value_mask => event.y = list[i].y)

C16_Reconfigured(cs) == \E i \in DOMAIN cs : cs[i][1] = "JXConfigureWindow"

C16_UnchangedRequestIsNoOp ==
  [][ (/\ last'.type = "ConfigureRequest"
       /\ Idle
       /\ C16_Managed(nodes, last')
       /\ C16_NothingDiffers(nodes, last')) =>
         (nodes' = nodes /\ ~C16_Reconfigured(calls') /\ xreq' = <<>>)
    ]_vars

\* A request selecting width and x, both equal to the stored values of a
\* client that was resized and moved before, was handled and configured
\* nothing.
C16_Witness ==
  /\ last.type = "ConfigureRequest"
  /\ {"CWWidth", "CWX"} \subseteq last.value_mask
  /\ C16_Managed(nodes, last)
  /\ C16_NothingDiffers(nodes, last)
  /\ last.width > 1 /\ last.x > 0
  /\ ~C16_Reconfigured(calls)

(* C17: a configure request for a managed client in which a selected field
   differs issues exactly two JXConfigureWindow requests, the decoration
   window's first and the content window's second.  The decoration's carries
   the client's position and its size grown by the insets; the content's
   carries the offset (west, north) and the undecorated size.  The insets
   are borderWidth on every side, with titleSize on top when there is a
   title bar, and all zero without an outline. *)
C17_West(border) == IF "BORDER_OUTLINE" \in border THEN borderWidth ELSE 0

C17_North(border) ==
  IF "BORDER_OUTLINE" \notin border THEN 0
  ELSE IF "BORDER_TITLE" \in border THEN titleSize ELSE borderWidth

C17_Differs(list, event) == ~C16_NothingDiffers(list, event)

C17_Expected(c, event) ==
  LET b == c.state.border
  IN  << <<"JXConfigureWindow", c.parent, event.value_mask, c.x, c.y,
           c.width + 2 * C17_West(b), c.height + C17_North(b) + C17_West(b)>>,
         <<"JXConfigureWindow", c.window, event.value_mask,
           C17_West(b), C17_North(b), c.width, c.height>> >>

C17_IsConfigure(r) == r[1] = "JXConfigureWindow"

C17_DecorationThenContent ==
  [][ (/\ last'.type = "ConfigureRequest"
       /\ Idle
       /\ C16_Managed(nodes, last')
       /\ C17_Differs(nodes, last')) =>
         \A i \in DOMAIN nodes' :
           nodes'[i].window = last'.window =>
             SelectSeq(calls', C17_IsConfigure) = C17_Expected(nodes'[i], last')
    ]_vars

\* A client with outline and title bar was resized; both requests went out.
C17_Witness ==
  /\ last.type = "ConfigureRequest"
  /\ "CWWidth" \in last.value_mask
  /\ \E i \in DOMAIN nodes :
       /\ nodes[i].window = last.window
       /\ nodes[i].state.border = {"BORDER_OUTLINE", "BORDER_TITLE"}
       /\ SelectSeq(calls, C17_IsConfigure) =
            << <<"JXConfigureWindow", nodes[i].parent, last.value_mask,
                 nodes[i].x, nodes[i].y,
                 last.width + 2 * borderWidth,
                 nodes[i].height + titleSize + borderWidth>>,
               <<"JXConfigureWindow", nodes[i].window, last.value_mask,
                 borderWidth, titleSize, last.width, nodes[i].height>> >>

\* The same for a client with a title bar and no outline: no insets at all.
C17_WitnessBare ==
  /\ last.type = "ConfigureRequest"
  /\ \E i \in DOMAIN nodes :
       /\ nodes[i].window = last.window
       /\ nodes[i].state.border = {"BORDER_TITLE"}
       /\ Len(SelectSeq(calls, C17_IsConfigure)) = 2

(* C18: for Button1 on the frame of an outlined client, DeleteClient,
   MaximizeClient and MinimizeClient are called exactly on a release in the
   close, maximize and minimize zone respectively, never on a press; and
   ResizeClient and MoveClient are called only on a press, in a resize zone
   and in the move zone respectively, never on a release. *)
C18_Named(cs, name) == \E i \in DOMAIN cs : cs[i][1] = name

C18_Zone(cs, zones) ==
  \E i \in DOMAIN cs : cs[i][1] = "GetBorderActionType" /\ cs[i][3] \in zones

C18_OnFrame(list, event) ==
  /\ event.type \in {"ButtonPress", "ButtonRelease"}
  /\ event.button = 1
  /\ \E i \in DOMAIN list :
       list[i].parent = event.window /\ "BORDER_OUTLINE" \in list[i].state.border

C18_ReleaseAndPressActions ==
  [][ (C18_OnFrame(nodes, last') /\ Idle) =>
        /\ C18_Named(calls', "DeleteClient") <=>
              (last'.type = "ButtonRelease" /\ C18_Zone(calls', {"BA_CLOSE"}))
        /\ C18_Named(calls', "MaximizeClient") <=>
              (last'.type = "ButtonRelease" /\ C18_Zone(calls', {"BA_MAXIMIZE"}))
        /\ C18_Named(calls', "MinimizeClient") <=>
              (last'.type = "ButtonRelease" /\ C18_Zone(calls', {"BA_MINIMIZE"}))
        /\ C18_Named(calls', "ResizeClient") <=>
              (last'.type = "ButtonPress"
                 /\ C18_Zone(calls', {"BA_RESIZE_N", "BA_RESIZE_SE"}))
        /\ C18_Named(calls', "MoveClient") =>
              (last'.type = "ButtonPress" /\ C18_Zone(calls', {"BA_MOVE"}))
    ]_vars

\* A Button1 press in the close zone was handled and closed nothing.
C18_Witness ==
  /\ C18_OnFrame(nodes, last)
  /\ last.type = "ButtonPress"
  /\ C18_Zone(calls, {"BA_CLOSE"})
  /\ ~C18_Named(calls, "DeleteClient")

\* A Button1 release in the maximize zone maximized the client.
C18_WitnessRelease ==
  /\ C18_OnFrame(nodes, last)
  /\ last.type = "ButtonRelease"
  /\ C18_Zone(calls, {"BA_MAXIMIZE"})
  /\ C18_Named(calls, "MaximizeClient")
  /\ \E i \in DOMAIN nodes : "STAT_MAXIMIZED" \in nodes[i].state.status

\* A Button1 release in a resize zone started nothing.
C18_WitnessResize ==
  /\ C18_OnFrame(nodes, last)
  /\ last.type = "ButtonRelease"
  /\ C18_Zone(calls, {"BA_RESIZE_SE"})
  /\ ~C18_Named(calls, "ResizeClient")

(* C19: the double-click detector goes from disarmed to armed only on a
   move-zone press whose MoveClient returned 0; a press whose MoveClient
   returned non-zero and a press treated as a double click (it toggled
   shade) leave it disarmed; and a move-zone press that finds the detector
   disarmed starts a move and toggles no shade, whatever its time and
   position.  So the press that follows a completed move or a double click
   always starts a move. *)
C19_MovePress(event, cs) ==
  /\ event.type = "ButtonPress"
  /\ event.button = 1
  /\ \E i \in DOMAIN cs : cs[i][1] = "GetBorderActionType" /\ cs[i][3] = "BA_MOVE"

C19_Moved(cs, result) ==
  \E i \in DOMAIN cs : cs[i][1] = "MoveClient" /\ cs[i][3] \in result

C19_Toggled(cs) ==
  \E i \in DOMAIN cs : cs[i][1] \in {"ShadeClient", "UnshadeClient"}

C19_ArmAndDisarm ==
  [][ /\ (doubleClickActive = 0 /\ doubleClickActive' # 0) =>
            (C19_MovePress(last', calls') /\ C19_Moved(calls', {0}))
      /\ (Idle /\ C19_MovePress(last', calls')) =>
            /\ C19_Moved(calls', {1}) => doubleClickActive' = 0
            /\ C19_Toggled(calls') => doubleClickActive' = 0
            /\ doubleClickActive = 0 =>
                  (C19_Moved(calls', {0, 1}) /\ ~C19_Toggled(calls'))
            /\ C19_Moved(calls', {0}) =>
                  (doubleClickActive' = 1 /\ lastClickTime' = last'.time
                     /\ lastX' = last'.x /\ lastY' = last'.y)
    ]_vars

\* After a double click at the recorded spot and time, a third press there
\* started a move and armed the detector again.
C19_Witness ==
  /\ C19_MovePress(last, calls)
  /\ \E i \in DOMAIN nodes :
       nodes[i].parent = last.window /\ "STAT_SHADED" \in nodes[i].state.status
  /\ C19_Moved(calls, {0})
  /\ ~C19_Toggled(calls)
  /\ doubleClickActive = 1
  /\ last.time = lastClickTime /\ last.x = lastX /\ last.y = lastY

\* A press whose move completed left the detector disarmed.
C19_WitnessMoved ==
  /\ C19_MovePress(last, calls)
  /\ C19_Moved(calls, {1})
  /\ doubleClickActive = 0

(* C20: for a _NET_WM_STATE message with action remove (0), add (1) or
   toggle (2) to a managed client: MaximizeClient is called at most once,
   also when the message names both maximize atoms; an add on a maximized
   client and a remove on a non-maximized client do not call it, and after
   an add naming a maximize atom the client is maximized, after a remove it
   is not.  Each of the sticky, maximize and shade sub-actions is applied
   exactly when the message names it, whatever else the message names: the
   sticky and shade calls are made iff named, and the flag of a sub-action
   that is not named is left as it was. *)
C20_Names(event, atoms) == event.data[2] \in atoms \/ event.data[3] \in atoms

C20_Max(event) ==
  C20_Names(event, {ATOM_NET_WM_STATE_MAXIMIZED_VERT, ATOM_NET_WM_STATE_MAXIMIZED_HORZ})

C20_Count(cs, names) == Cardinality({ i \in DOMAIN cs : cs[i][1] \in names })

C20_Has(c, flag) == flag \in c.state.status

\* The flag after the sub-action, from the flag before and the action.
C20_After(before, action) ==
  CASE action = 0 -> FALSE
    [] action = 1 -> TRUE
    [] OTHER -> ~before

C20_Message(list, event) ==
  /\ event.type = "ClientMessage"
  /\ event.message_type = "ATOM_NET_WM_STATE"
  /\ event.data[1] \in 0..2
  /\ \E i \in DOMAIN list : list[i].window = event.window

C20_SubActions ==
  [][ (C20_Message(nodes, last') /\ Idle /\ Len(nodes') = Len(nodes)) =>
        \A i \in DOMAIN nodes :
          nodes[i].window = last'.window =>
            LET c == nodes[i]
                d == nodes'[i]
                e == last'
                a == e.data[1]
                stick == C20_Names(e, {ATOM_NET_WM_STATE_STICKY})
                shade == C20_Names(e, {ATOM_NET_WM_STATE_SHADED})
                wasMax == C20_Has(c, "STAT_MAXIMIZED")
            IN  /\ C20_Count(calls', {"MaximizeClient"}) =
                     (IF C20_Max(e) /\ (a = 2 \/ (a = 1 /\ ~wasMax) \/ (a = 0 /\ wasMax))
                      THEN 1 ELSE 0)
                /\ C20_Count(calls', {"SetClientSticky"}) = (IF stick THEN 1 ELSE 0)
                /\ C20_Count(calls', {"ShadeClient", "UnshadeClient"}) =
                     (IF shade THEN 1 ELSE 0)
                /\ C20_Has(d, "STAT_MAXIMIZED") =
                     (IF C20_Max(e) THEN C20_After(wasMax, a) ELSE wasMax)
                /\ C20_Has(d, "STAT_STICKY") =
                     (IF stick THEN C20_After(C20_Has(c, "STAT_STICKY"), a)
                      ELSE C20_Has(c, "STAT_STICKY"))
                /\ C20_Has(d, "STAT_SHADED") =
                     (IF shade THEN C20_After(C20_Has(c, "STAT_SHADED"), a)
                      ELSE C20_Has(c, "STAT_SHADED"))
    ]_vars

\* An add naming both maximize atoms reached a maximized client and called
\* nothing.
C20_Witness ==
  /\ C20_Message(nodes, last)
  /\ last.data = <<1, ATOM_NET_WM_STATE_MAXIMIZED_VERT, ATOM_NET_WM_STATE_MAXIMIZED_HORZ>>
  /\ calls = <<>>
  /\ \E i \in DOMAIN nodes : C20_Has(nodes[i], "STAT_MAXIMIZED")

\* A toggle naming both maximize atoms called MaximizeClient once.
C20_WitnessOnce ==
  /\ C20_Message(nodes, last)
  /\ last.data = <<2, ATOM_NET_WM_STATE_MAXIMIZED_VERT, ATOM_NET_WM_STATE_MAXIMIZED_HORZ>>
  /\ C20_Count(calls, {"MaximizeClient"}) = 1

\* A remove naming sticky and shaded cleared both on a client that had both.
C20_WitnessBoth ==
  /\ C20_Message(nodes, last)
  /\ last.data = <<0, ATOM_NET_WM_STATE_STICKY, ATOM_NET_WM_STATE_SHADED>>
  /\ C20_Count(calls, {"SetClientSticky"}) = 1
  /\ C20_Count(calls, {"UnshadeClient"}) = 1
  /\ \E i \in DOMAIN nodes :
       ~C20_Has(nodes[i], "STAT_STICKY") /\ ~C20_Has(nodes[i], "STAT_SHADED")
            /\ C20_Has(nodes[i], "STAT_MAXIMIZED")

(* C21: a MapRequest for a registered client that is not mapped sets
   STAT_MAPPED, clears STAT_MINIMIZED and STAT_WITHDRAWN and leaves its other
   flags alone, maps the content window and then the decoration window,
   raises the client and, under click focus only, focuses it.  A MapRequest
   for a registered client that is mapped leaves the whole registry as it
   was and issues no JXMapWindow. *)
C21_Has(cs, c) == \E i \in DOMAIN cs : cs[i] = c

C21_Maps(cs) == \E i \in DOMAIN cs : cs[i][1] = "JXMapWindow"

C21_Restored(c, d, cs) ==
  /\ d.state.status \ {"STAT_ACTIVE"} =
        ((c.state.status \cup {"STAT_MAPPED"})
           \ {"STAT_MINIMIZED", "STAT_WITHDRAWN", "STAT_ACTIVE"})
  /\ SelectSeq(cs, IsXRequest) =
        << <<"JXMapWindow", c.window, 0>>, <<"JXMapWindow", c.parent, 0>> >>
  /\ C21_Has(cs, <<"RaiseClient", c.window, 0>>)
  /\ C21_Has(cs, <<"FocusClient", c.window, 0>>) <=> focusModel = "FOCUS_CLICK"
  /\ IF focusModel = "FOCUS_CLICK"
     THEN "STAT_ACTIVE" \in d.state.status
     ELSE ("STAT_ACTIVE" \in d.state.status) = ("STAT_ACTIVE" \in c.state.status)

C21_MapRequestRestores ==
  [][ (last'.type = "MapRequest" /\ Idle) =>
        \A i \in DOMAIN nodes :
          nodes[i].window = last'.window =>
            /\ Len(nodes') = Len(nodes)
            /\ IF "STAT_MAPPED" \in nodes[i].state.status
               THEN nodes' = nodes /\ ~C21_Maps(calls') /\ xreq' = <<>>
               ELSE C21_Restored(nodes[i], nodes'[i], calls')
    ]_vars

\* A registered client that was not mapped was restored by a MapRequest,
\* and the server has mapped both of its windows.
C21_Witness ==
  /\ last.type = "MapRequest"
  /\ Idle
  /\ C21_Has(calls, <<"JXMapWindow", ParentOf(last.window), 0>>)
  /\ ~C21_Has(calls, <<"AddClientWindow", last.window, 1>>)
  /\ srv[last.window].mapped /\ srv[ParentOf(last.window)].mapped
  /\ \E i \in DOMAIN nodes :
       nodes[i].window = last.window /\ "STAT_MAPPED" \in nodes[i].state.status

\* A MapRequest for a mapped client called nothing but the restack.
C21_WitnessMapped ==
  /\ last.type = "MapRequest"
  /\ calls = << <<"RestackClients", 0, 0>> >>

(* C22: whenever every request the handlers issued has been applied, a
   registered client with STAT_MAPPED set has both its content window and
   its decoration window mapped on the server.  An UnmapNotify for the
   content window of a registered client clears STAT_MAPPED and, if it was
   set, unmaps the decoration window; the client stays registered with its
   other flags as they were, and a later MapRequest for it sets STAT_MAPPED
   again. *)
C22_Visible(c) == srv[c.window].mapped /\ srv[c.parent].mapped

C22_MappedIsVisible ==
  Idle => \A i \in DOMAIN nodes :
            "STAT_MAPPED" \in nodes[i].state.status => C22_Visible(nodes[i])

C22_UnmapKeepsClient ==
  \A i \in DOMAIN nodes :
    nodes[i].window = last'.window =>
      /\ Len(nodes') = Len(nodes)
      /\ nodes'[i].window = nodes[i].window
      /\ nodes'[i].state.status = nodes[i].state.status \ {"STAT_MAPPED"}
      /\ "STAT_MAPPED" \in nodes[i].state.status =>
            SelectSeq(calls', IsXRequest) = << <<"JXUnmapWindow", nodes[i].parent, 0>> >>

C22_MapRestores ==
  \A i \in DOMAIN nodes :
    nodes[i].window = last'.window =>
      (Len(nodes') = Len(nodes) /\ "STAT_MAPPED" \in nodes'[i].state.status)

C23_Request(event) ==
  event.type = "ClientMessage" /\ event.message_type = "ATOM_NET_WM_DESKTOP"

C23_Target(c, event) == c.window = event.window \/ c.parent = event.window

C23_Sticky(c) == "STAT_STICKY" \in c.state.status

C23_Assigned(cs) == \E i \in DOMAIN cs : cs[i][1] = "SetClientDesktop"

C23_StickyOrDesktop ==
  [][ (C23_Request(last') /\ Idle) =>
        \A i \in DOMAIN nodes :
          C23_Target(nodes[i], last') =>
            LET d == last'.data[1]
            IN  /\ ~(C23_Sticky(nodes'[i]) /\ C23_Assigned(calls'))
                /\ (d >= 0 /\ d < desktopCount) =>
                      /\ ~C23_Sticky(nodes'[i])
                      /\ nodes'[i].state.desktop = d
                      /\ C23_Assigned(calls')
                /\ d = AllDesktops =>
                      /\ C23_Sticky(nodes'[i])
                      /\ nodes'[i].state.desktop = nodes[i].state.desktop
                      /\ calls' = << <<"SetClientSticky", nodes[i].window, 1>> >>
    ]_vars

\* A client on the last desktop was sent the all-desktops value: it is
\* sticky, and its desktop field still names the last desktop.
C23_Witness ==
  /\ C23_Request(last)
  /\ last.data[1] = AllDesktops
  /\ \E i \in DOMAIN nodes :
       /\ C23_Target(nodes[i], last)
       /\ calls = << <<"SetClientSticky", nodes[i].window, 1>> >>
       /\ C23_Sticky(nodes[i])
       /\ nodes[i].state.desktop = desktopCount - 1

\* A client was given the last desktop and is not sticky.
C23_WitnessAssigned ==
  /\ C23_Request(last)
  /\ last.data[1] = desktopCount - 1
  /\ C23_Assigned(calls)
  /\ \E i \in DOMAIN nodes :
       /\ C23_Target(nodes[i], last)
       /\ ~C23_Sticky(nodes[i])
       /\ nodes[i].state.desktop = desktopCount - 1

(* C24: a client without BORDER_OUTLINE has borderAction BA_NONE in every
   reachable state; and a Button1 press or release on its frame returns
   before the zone is resolved, so it starts no resize and no move and
   triggers no close, maximize, minimize, shade or unshade. *)
C24_Bare(c) == "BORDER_OUTLINE" \notin c.state.border

C24_NoZone == \A i \in DOMAIN nodes : C24_Bare(nodes[i]) => nodes[i].borderAction = "BA_NONE"

C24_Transitions ==
  { "GetBorderActionType", "ResizeClient", "MoveClient", "DeleteClient",
    "MaximizeClient", "MinimizeClient", "ShadeClient", "UnshadeClient" }

C24_Button1(list, event) ==
  /\ event.type \in {"ButtonPress", "ButtonRelease"}
  /\ event.button = 1
  /\ \E i \in DOMAIN list : list[i].parent = event.window /\ C24_Bare(list[i])

C24_BareFrameInert ==
  /\ []C24_NoZone
  /\ [][ (C24_Button1(nodes, last') /\ Idle) =>
           /\ \A i \in DOMAIN calls' : calls'[i][1] \notin C24_Transitions
           /\ \A i \in DOMAIN nodes :
                nodes'[i].state.status \ {"STAT_ACTIVE"} =
                  nodes[i].state.status \ {"STAT_ACTIVE"}
       ]_vars

\* The pointer entered the frame of a client with a title bar and no
\* outline; its borderAction is BA_NONE.
C24_Witness ==
  /\ last.type = "EnterNotify"
  /\ \E i \in DOMAIN nodes :
       /\ nodes[i].parent = last.window
       /\ nodes[i].state.border = {"BORDER_TITLE"}
       /\ nodes[i].borderAction = "BA_NONE"
       /\ \E j \in DOMAIN calls : calls[j] = <<"GetBorderActionType", nodes[i].window, "BA_NONE">>

\* A Button1 press on the frame of such a client raised it and did no more.
C24_WitnessButton ==
  /\ C24_Button1(nodes, last)
  /\ last.type = "ButtonPress"
  /\ \E i \in DOMAIN calls : calls[i][1] = "RaiseClient"
  /\ \A i \in DOMAIN calls : calls[i][1] \notin C24_Transitions

(* C25: under any sequence of MapRequest, UnmapNotify and WM_CHANGE_STATE
   events, no registered client has STAT_MAPPED set together with
   STAT_WITHDRAWN or with STAT_MINIMIZED. *)
C25_Illegal(c) ==
  /\ "STAT_MAPPED" \in c.state.status
  /\ c.state.status \cap {"STAT_WITHDRAWN", "STAT_MINIMIZED"} # {}

C25_MappedExcludesHidden == \A i \in DOMAIN nodes : ~C25_Illegal(nodes[i])

\* A MapRequest restored a registered client, which is mapped and neither
\* iconified nor withdrawn, while another client, unmapped, carries both of
\* those flags.
C25_Witness ==
  /\ last.type = "MapRequest"
  /\ \E i \in DOMAIN calls : calls[i] = <<"JXMapWindow", ParentOf(last.window), 0>>
  /\ \E i \in DOMAIN calls : calls[i][1] = "UpdateTaskBar"
  /\ \E i \in DOMAIN nodes :
       /\ nodes[i].window = last.window
       /\ "STAT_MAPPED" \in nodes[i].state.status
       /\ ~C25_Illegal(nodes[i])
  /\ \E j \in DOMAIN nodes :
       nodes[j].window # last.window
         /\ {"STAT_MINIMIZED", "STAT_WITHDRAWN"} \subseteq nodes[j].state.status

(* C26: a move-zone press on one client that armed the double-click
   detector, followed within the time and distance limits by a move-zone
   press on a different client, toggles no shade on the second client and
   starts a move on it. *)
C26_Near(first, second) ==
  /\ AbsDiff(second.time, first.time) <= doubleClickSpeed
  /\ AbsDiff(second.x, first.x) <= doubleClickDelta
  /\ AbsDiff(second.y, first.y) <= doubleClickDelta

C26_ShadeOnlyOnFirstClient ==
  [][ (/\ C19_MovePress(last, calls)
       /\ C19_Moved(calls, {0})
       /\ Idle
       /\ C19_MovePress(last', calls')
       /\ last'.window # last.window
       /\ C26_Near(last, last')) =>
         /\ ~C19_Toggled(calls')
         /\ C19_Moved(calls', {0, 1})
         /\ C3_Shaded(nodes', last'.window) = C3_Shaded(nodes, last'.window)
    ]_vars

(* C27: for every combination of the outline and title flags, the offsets
   HandleButtonEvent subtracts from the Button3 menu anchor are the west
   and north insets HandleConfigureRequest uses for the same client: the
   window menu is shown at the pointer's frame position plus the client's
   position, less (west, north). *)
C27_Button3(event) ==
  event.type \in {"ButtonPress", "ButtonRelease"} /\ event.button = 3

C27_AnchorUsesInsets ==
  [][ (C27_Button3(last') /\ Idle) =>
        \A i \in DOMAIN nodes :
          nodes[i].parent = last'.window =>
            LET c  == nodes[i]
                in == ConfigureInsets(c.state.border)
            IN  \E j \in DOMAIN calls' :
                  calls'[j] = <<"ShowWindowMenu", c.window,
                                last'.x + c.x - in.west, last'.y + c.y - in.north>>
    ]_vars
====
